---------------------------- MODULE Spec2Model ----------------------------
(***************************************************************************)
(* A model of the calibration engine of imu_cal_gui (src/src/cal.rs), of   *)
(* the places of the user interface (src/src/ui.rs) that drive it, and of  *)
(* the quality scores (src/src/quality.rs).                                *)
(*                                                                         *)
(* Numbers.  An f64 is held as a pair <<n, d>> of integers: the exact      *)
(* rational n/d in lowest terms when d > 0, and the IEEE special values    *)
(* when d = 0 (<<0,0>> is NaN, <<1,0>> is +inf, <<-1,0>> is -inf).  The    *)
(* arithmetic is exact, so the rounding of f64 operations is left out;     *)
(* what an operation does on an empty sum or a zero divisor (0.0/0.0 is    *)
(* NaN, x/0.0 is an infinity, NaN propagates, a comparison with NaN is     *)
(* false) is kept.  Where the rounding itself is in question (the mean of  *)
(* the gyro samples) a second layer computes with 53-bit mantissas.        *)
(*                                                                         *)
(* Specifications.  Spec is the application driving Cal; SpecFile is the   *)
(* File menu (save, then open the saved file); SpecQuality is a Quality    *)
(* under reset, update and its calc functions; SpecPure applies single     *)
(* functions to inputs drawn at the start; SpecViews calls the calibrated  *)
(* views between adds, clears, a load and calibrate; SpecChannels is the   *)
(* provider tasks sending on the two channels while MyApp::update empties  *)
(* them; SpecCodec is the LineCodec of serial_data_provider.rs.            *)
(***************************************************************************)
EXTENDS Integers, Sequences, FiniteSets, TLC

-----------------------------------------------------------------------------
(* f64 *)

Abs(i) == IF i < 0 THEN -i ELSE i

Sign(i) == IF i < 0 THEN -1 ELSE IF i > 0 THEN 1 ELSE 0

RECURSIVE Gcd(_, _)
Gcd(a, b) == IF b = 0 THEN a ELSE Gcd(b, a % b)

\* The f64 n/d: lowest terms, positive denominator; d = 0 gives NaN or +-inf.
Rat(n, d) ==
    IF d = 0 THEN <<Sign(n), 0>>
    ELSE LET g == Gcd(Abs(n), Abs(d))
         IN  <<Sign(d) * (n \div g), Abs(d) \div g>>

NaN == <<0, 0>>
R0 == <<0, 1>>
R1 == <<1, 1>>
IsNaN(x) == x = NaN
IsFinite(x) == x[2] > 0

RNeg(x) == <<-x[1], x[2]>>

RAdd(x, y) ==
    IF x[2] = 1 /\ y[2] = 1 THEN <<x[1] + y[1], 1>>
    ELSE IF x[2] = 0 \/ y[2] = 0
    THEN (IF x[2] > 0 THEN y ELSE IF y[2] > 0 THEN x ELSE IF x = y THEN x ELSE NaN)
    ELSE LET g == Gcd(x[2], y[2])
         IN  Rat(x[1] * (y[2] \div g) + y[1] * (x[2] \div g), (x[2] \div g) * y[2])

RSub(x, y) == RAdd(x, RNeg(y))

\* Common factors are cancelled before the products are formed.
RMul(x, y) ==
    IF x[2] = 1 /\ y[2] = 1 THEN <<x[1] * y[1], 1>>
    ELSE IF x[2] = 0 \/ y[2] = 0 THEN <<Sign(x[1]) * Sign(y[1]), 0>>
    ELSE IF x[1] = 0 \/ y[1] = 0 THEN R0
    ELSE LET g1 == Gcd(Abs(x[1]), y[2])
             g2 == Gcd(Abs(y[1]), x[2])
         IN  <<(x[1] \div g1) * (y[1] \div g2), (x[2] \div g2) * (y[2] \div g1)>>

\* 1 / y: an infinity for zero, zero for an infinity.
Recip(y) == IF y[1] < 0 THEN <<-y[2], -y[1]>> ELSE <<y[2], y[1]>>

\* x / y: a finite x over zero is an infinity, 0/0 and anything with NaN is NaN.
RDiv(x, y) ==
    IF y[2] > 0 /\ y[1] = 0 THEN <<Sign(x[1]), 0>>
    ELSE RMul(x, Recip(y))

\* x < y, false when either is NaN.
RLt(x, y) ==
    IF IsNaN(x) \/ IsNaN(y) THEN FALSE
    ELSE IF x[2] = 0 /\ y[2] = 0 THEN x[1] < y[1]
    ELSE IF x[2] = 0 THEN x[1] < 0
    ELSE IF y[2] = 0 THEN y[1] > 0
    ELSE LET g == Gcd(x[2], y[2])
         IN  x[1] * (y[2] \div g) < y[1] * (x[2] \div g)

RGt(x, y) == RLt(y, x)

\* The largest i with i * i <= n, for a natural n.
RECURSIVE ISqrtFrom(_, _)
ISqrtFrom(n, i) == IF (i + 1) * (i + 1) > n THEN i ELSE ISqrtFrom(n, i + 1)
ISqrt(n) == ISqrtFrom(n, 0)

\* f64::sqrt: NaN below zero.  The model only takes roots of squares of
\* rationals, where the root is exact.
RSqrt(x) ==
    IF IsNaN(x) \/ x[1] < 0 THEN NaN
    ELSE IF x[2] = 0 THEN x
    ELSE <<ISqrt(x[1]), ISqrt(x[2])>>

\* Iterator::sum::<f64>() of a sequence of f64: 0.0 for the empty sequence.
RECURSIVE RSumTo(_, _)
RSumTo(s, n) == IF n = 0 THEN R0 ELSE RAdd(RSumTo(s, n - 1), s[n])
RSum(s) == RSumTo(s, Len(s))

\* Vec::len() as f64.
LenF(s) == <<Len(s), 1>>

-----------------------------------------------------------------------------
(* f64 with its rounding: positive finite values                            *)
(* A value is [m |-> bits, e |-> k], the number m * 2^k, with m a natural   *)
(* number written in binary, most significant bit first, odd (so that equal *)
(* numbers are equal values), of at most 53 bits; zero is [m |-> <<>>,      *)
(* e |-> 0].  Overflow and subnormal numbers are out of the range used.     *)

MantissaBits == 53

Max(a, b) == IF a > b THEN a ELSE b
Zeros(k) == [i \in 1..k |-> 0]

\* The bit of weight 2^i of the natural number a.
BitAt(a, i) == IF i < Len(a) THEN a[Len(a) - i] ELSE 0

\* Leading zeros removed.
BTrim(a) ==
    IF \A i \in 1..Len(a) : a[i] = 0 THEN <<>>
    ELSE SubSeq(a, CHOOSE i \in 1..Len(a) : a[i] = 1 /\ \A j \in 1..(i - 1) : a[j] = 0,
                Len(a))

\* The carry into the bit of weight 2^i of a + b: some lower position
\* generates one and every position between passes it on.
Carry(a, b, i) ==
    \E j \in 0..(i - 1) :
        /\ BitAt(a, j) = 1 /\ BitAt(b, j) = 1
        /\ \A k \in (j + 1)..(i - 1) : BitAt(a, k) = 1 \/ BitAt(b, k) = 1

BAddWide(a, b, n) ==
    [p \in 1..n |-> (BitAt(a, n - p) + BitAt(b, n - p)
                     + (IF Carry(a, b, n - p) THEN 1 ELSE 0)) % 2]
BAdd(a, b) == BTrim(BAddWide(a, b, Max(Len(a), Len(b)) + 1))

\* Trailing zeros moved into the exponent.
F64Norm(m, e) ==
    IF \A i \in 1..Len(m) : m[i] = 0 THEN [m |-> <<>>, e |-> 0]
    ELSE \* the last 1 bit
         LET l == CHOOSE i \in 1..Len(m) : m[i] = 1 /\ \A j \in (i + 1)..Len(m) : m[j] = 0
         IN  [m |-> BTrim(SubSeq(m, 1, l)), e |-> e + Len(m) - l]

F64Zero == F64Norm(<<>>, 0)

\* Round to nearest, ties to even: the value (m + f) * 2^e, where 0 <= f < 1
\* and f > 0 exactly when sticky, as the nearest number of 53 significant bits
\* (m has no leading zero).
F64Round(m, e, sticky) ==
    IF Len(m) <= MantissaBits THEN F64Norm(m, e)
    ELSE LET k == Len(m) - MantissaBits
             kept == SubSeq(m, 1, MantissaBits)
             guard == m[MantissaBits + 1]
             rest == sticky \/ \E j \in (MantissaBits + 2)..Len(m) : m[j] = 1
             up == guard = 1 /\ (rest \/ kept[MantissaBits] = 1)
         IN  F64Norm(IF up THEN BAdd(kept, <<1>>) ELSE kept, e + k)

\* x + y
F64Add(x, y) ==
    IF x.m = <<>> THEN y
    ELSE IF y.m = <<>> THEN x
    ELSE LET e == IF x.e < y.e THEN x.e ELSE y.e
         IN  F64Round(BAdd(x.m \o Zeros(x.e - e), y.m \o Zeros(y.e - e)), e, FALSE)

\* 2^k mod n
RECURSIVE Pow2Mod(_, _)
Pow2Mod(k, n) ==
    IF k <= 20 THEN (2 ^ k) % n
    ELSE (Pow2Mod(k \div 2, n) * Pow2Mod(k - k \div 2, n)) % n

\* The natural number written by bits lo..hi of a, mod n.
RECURSIVE ValMod(_, _, _, _)
ValMod(a, lo, hi, n) ==
    IF lo > hi THEN 0
    ELSE IF lo = hi THEN a[lo] % n
    ELSE (ValMod(a, lo, (lo + hi) \div 2, n) * Pow2Mod(hi - (lo + hi) \div 2, n)
          + ValMod(a, (lo + hi) \div 2 + 1, hi, n)) % n

\* Long division of the natural number a by n: bit i of the quotient is 1
\* when the remainder of the bits before it, followed by bit i, reaches n.
BQuotient(a, n) ==
    BTrim([i \in 1..Len(a) |-> IF 2 * ValMod(a, 1, i - 1, n) + a[i] >= n THEN 1 ELSE 0])
BRemainder(a, n) == ValMod(a, 1, Len(a), n)

\* x / n for a count n, 0 < n < 2^7 (len() as f64 is exact): the quotient is
\* computed to more than 53 bits and rounded once.
F64DivWide(wide, n, e) == F64Round(BQuotient(wide, n), e, BRemainder(wide, n) # 0)
F64DivCount(x, n) ==
    IF x.m = <<>> THEN x
    ELSE F64DivWide(x.m \o Zeros(MantissaBits + 7), n, x.e - (MantissaBits + 7))

\* Iterator::sum::<f64>(): from 0.0, one addition per element, each rounded.
RECURSIVE F64SumTo(_, _)
F64SumTo(s, n) == IF n = 0 THEN F64Zero ELSE F64Add(F64SumTo(s, n - 1), s[n])
F64Sum(s) == F64SumTo(s, Len(s))

\* The bit pattern `unit` written `times` times.
RECURSIVE Repeat(_, _)
Repeat(unit, times) == IF times = 0 THEN <<>> ELSE unit \o Repeat(unit, times - 1)

\* The f64 nearest to 0.1 (0x1999999999999A * 2^-56) and to 0.3
\* (0x13333333333333 * 2^-54); 0.5 and 1.0 are exact.
F64Tenth == F64Norm(<<1>> \o Repeat(<<1, 0, 0, 1>>, 12) \o <<1, 0, 1, 0>>, -56)
F64ThreeTenths == F64Norm(<<1>> \o Repeat(<<0, 0, 1, 1>>, 13), -54)
F64Half == F64Norm(<<1>>, -1)
F64One == F64Norm(<<1>>, 0)

-----------------------------------------------------------------------------
(* nalgebra::Vector3<f64> *)

Vec(x, y, z) == <<x, y, z>>
Zero3 == Vec(R0, R0, R0)

VAdd(u, v) == Vec(RAdd(u[1], v[1]), RAdd(u[2], v[2]), RAdd(u[3], v[3]))
VSub(u, v) == Vec(RSub(u[1], v[1]), RSub(u[2], v[2]), RSub(u[3], v[3]))
VScale(u, a) == Vec(RMul(u[1], a), RMul(u[2], a), RMul(u[3], a))
VNeg(u) == Vec(RNeg(u[1]), RNeg(u[2]), RNeg(u[3]))
\* Vector3::component_mul
ComponentMul(u, v) == Vec(RMul(u[1], v[1]), RMul(u[2], v[2]), RMul(u[3], v[3]))
VFinite(u) == IsFinite(u[1]) /\ IsFinite(u[2]) /\ IsFinite(u[3])

Lcm(a, b) == (a \div Gcd(a, b)) * b

\* Squares and their sums are held as <<hi, lo>>, meaning hi * Limb^2 + lo with
\* lo < Limb^2, so that the square of a number below 2^28 does not leave the
\* range of the model checker's integers.
Limb == 2 ^ 15
WideSq(x) ==
    LET h == x \div Limb
        l == x % Limb
        m == 2 * h * l
        low == (m % Limb) * Limb + l * l
    IN  <<h * h + (m \div Limb) + (low \div (Limb * Limb)), low % (Limb * Limb)>>
WideAdd(p, q) ==
    LET low == p[2] + q[2]
    IN  <<p[1] + q[1] + (low \div (Limb * Limb)), low % (Limb * Limb)>>
WideLt(p, q) == p[1] < q[1] \/ (p[1] = q[1] /\ p[2] < q[2])

\* v.norm() < tau for a positive finite tau: sqrt(x^2 + y^2 + z^2) < tau, decided
\* exactly as x^2 + y^2 + z^2 < tau^2 over a common denominator.  A NaN or
\* infinite component makes the norm NaN or infinite, and the test false.
NormLt(v, tau) ==
    IF ~VFinite(v) THEN FALSE
    ELSE LET den == Lcm(Lcm(v[1][2], v[2][2]), v[3][2])
             g == Gcd(tau[2], den)
             num(i) == Abs(v[i][1]) * (den \div v[i][2]) * (tau[2] \div g)
             bound == tau[1] * (den \div g)
         IN  /\ \A i \in 1..3 : num(i) < bound
             /\ WideLt(WideAdd(WideAdd(WideSq(num(1)), WideSq(num(2))), WideSq(num(3))),
                       WideSq(bound))

-----------------------------------------------------------------------------
(* nalgebra::Matrix3<f64>: a triple of rows *)

Identity3 == <<Vec(R1, R0, R0), Vec(R0, R1, R0), Vec(R0, R0, R1)>>
Diag3(a, b, c) == <<Vec(a, R0, R0), Vec(R0, b, R0), Vec(R0, R0, c)>>
Dot(u, v) == RAdd(RAdd(RMul(u[1], v[1]), RMul(u[2], v[2])), RMul(u[3], v[3]))
Col(m, j) == Vec(m[1][j], m[2][j], m[3][j])
MatVec(m, v) == Vec(Dot(m[1], v), Dot(m[2], v), Dot(m[3], v))
MatRow(a, b, i) == Vec(Dot(a[i], Col(b, 1)), Dot(a[i], Col(b, 2)), Dot(a[i], Col(b, 3)))
MatMul(a, b) == <<MatRow(a, b, 1), MatRow(a, b, 2), MatRow(a, b, 3)>>
MatAdd(a, b) == <<VAdd(a[1], b[1]), VAdd(a[2], b[2]), VAdd(a[3], b[3])>>
MatScale(a, k) == <<VScale(a[1], k), VScale(a[2], k), VScale(a[3], k)>>

Minor2(m, r1, r2, c1, c2) ==
    RSub(RMul(m[r1][c1], m[r2][c2]), RMul(m[r2][c1], m[r1][c2]))

Det3(m) ==
    RAdd(RSub(RMul(m[1][1], Minor2(m, 2, 3, 2, 3)),
              RMul(m[1][2], Minor2(m, 2, 3, 1, 3))),
         RMul(m[1][3], Minor2(m, 2, 3, 1, 2)))

\* The one element of a singleton set: binds a computed value to a name.
The(S) == CHOOSE x \in S : TRUE

\* Option<T>
None == [some |-> FALSE]
Some(v) == [some |-> TRUE, val |-> v]

\* Matrix3::try_inverse: None when the determinant is zero, otherwise the
\* adjugate over the determinant.
Mat3TryInverse(m) ==
    LET det == Det3(m)
        cof(i, j) ==
            LET rs == IF i = 1 THEN <<2, 3>> ELSE IF i = 2 THEN <<1, 3>> ELSE <<1, 2>>
                cs == IF j = 1 THEN <<2, 3>> ELSE IF j = 2 THEN <<1, 3>> ELSE <<1, 2>>
                mn == Minor2(m, rs[1], rs[2], cs[1], cs[2])
            IN  IF (i + j) % 2 = 0 THEN mn ELSE RNeg(mn)
    IN  IF det = R0 THEN None
        ELSE LET row(i) == Vec(RDiv(cof(1, i), det), RDiv(cof(2, i), det), RDiv(cof(3, i), det))
             IN  Some(<<row(1), row(2), row(3)>>)

\* mat3_m_sqrt: iter_count Babylonian steps from the identity.  The unwrap of
\* x.try_inverse() panics on a singular iterate: None stands for that panic.
RECURSIVE MSqrtFrom(_, _, _)
MSqrtFrom(a, x, iter_count) ==
    IF iter_count = 0 THEN Some(x)
    ELSE LET x_inv == Mat3TryInverse(x)
         IN  IF ~x_inv.some THEN None
             ELSE MSqrtFrom(a, MatScale(MatAdd(x, MatMul(a, x_inv.val)), <<1, 2>>),
                            iter_count - 1)

\* Variant: one step more than iter_count.
mat3_m_sqrt_one_more(a, iter_count) == MSqrtFrom(a, Identity3, iter_count + 1)

mat3_m_sqrt(a, iter_count) == MSqrtFrom(a, Identity3, iter_count)

-----------------------------------------------------------------------------
(* Constants of cal.rs, as exact rationals *)

G0 == Rat(980665, 100000)
G0_THR == RMul(G0, Rat(75, 100))
F0 == Rat(488819, 10000)

\* add_acc_measurement_still: alpha and the acceptance threshold
AccAlpha == Rat(95, 100)
AccTau == Rat(1, 100)
\* add_gyro_measurement_still: alpha and the acceptance threshold
GyroAlpha == Rat(98, 100)
GyroTau == Rat(1, 1000)
\* the iteration count calibrate() passes to mat3_m_sqrt
SqrtIterations == 10

-----------------------------------------------------------------------------
(* Bounds and inputs of the model *)

\* calls of the five add operations in one run
MaxAdds == 2
\* calls of load_from_file in one run
MaxLoads == 1
\* presses of a clear button in one run
MaxClears == 1
\* presses of "Calibrate now" in one run
MaxCalibrations == 2

V3(x, y, z, d) == Vec(Rat(x, d), Rat(y, d), Rat(z, d))

\* Angular velocities (rad/s): one the gyro filter accepts from rest, one whose
\* distance to the updated average is exactly the threshold, one far off.
GyroSamples == {V3(1, 1, 1, 2940), V3(2, 2, 1, 2940), V3(1, 0, 0, 1)}

\* Accelerations (m/s^2): the same two threshold cases for the accelerometer
\* filter, and a reading beyond +0.75 g0 on every axis.
AccSamples == {V3(1, 1, 1, 285), V3(2, 2, 1, 285), V3(10, 10, 10, 1)}

MagSamples == {V3(3, 0, 0, 1)}

\* The accelerometer readings of six static orientations of a sensor with bias b
\* and scale k per axis: raw = true / k - b, where true is +g0 or -g0 on one
\* axis and zero on the other two.
Raw(t, b, k) ==
    Vec(RSub(RDiv(t[1], k[1]), b[1]), RSub(RDiv(t[2], k[2]), b[2]),
        RSub(RDiv(t[3], k[3]), b[3]))
SixLobes(b, k) ==
    << Raw(Vec(G0, R0, R0), b, k), Raw(Vec(RNeg(G0), R0, R0), b, k),
       Raw(Vec(R0, G0, R0), b, k), Raw(Vec(R0, RNeg(G0), R0), b, k),
       Raw(Vec(R0, R0, G0), b, k), Raw(Vec(R0, R0, RNeg(G0)), b, k) >>

One3 == Vec(R1, R1, R1)
Bias == V3(1, 0, 0, 2)

\* Twelve field readings on the sphere of radius 3 about the origin.
SphereMag ==
    << V3(3, 0, 0, 1), V3(-3, 0, 0, 1), V3(0, 3, 0, 1), V3(0, -3, 0, 1),
       V3(0, 0, 3, 1), V3(0, 0, -3, 1), V3(1, 2, 2, 1), V3(-1, -2, -2, 1),
       V3(2, 1, 2, 1), V3(-2, -1, -2, 1), V3(2, 2, 1, 1), V3(-2, -2, -1, 1) >>
\* Five readings, not in one plane.
FiveMag ==
    << V3(3, 0, 0, 1), V3(0, 3, 0, 1), V3(0, 0, 3, 1), V3(-3, 0, 0, 1), V3(1, 2, 2, 1) >>
\* Ten readings in the plane z = 0.
FlatMag ==
    << V3(3, 0, 0, 1), V3(-3, 0, 0, 1), V3(0, 3, 0, 1), V3(0, -3, 0, 1),
       V3(1, 2, 0, 1), V3(-1, -2, 0, 1), V3(2, 1, 0, 1), V3(-2, -1, 0, 1),
       V3(2, 2, 0, 1), V3(-2, -2, 0, 1) >>

\* What a data file may hold: the three named arrays of 3-vectors.
FileClean ==
    [acc |-> SixLobes(Zero3, One3), gyro |-> <<V3(1, 1, 1, 2940)>>, mag |-> SphereMag]
FileBiased ==
    [acc |-> SixLobes(Bias, One3),
     gyro |-> <<V3(1, 1, 1, 2940), V3(2, 2, 1, 2940)>>, mag |-> FiveMag]
FileFlat ==
    [acc |-> <<V3(10, 0, 0, 1), V3(-10, 0, 0, 1)>>, gyro |-> <<>>, mag |-> FlatMag]
Files == {FileClean, FileBiased, FileFlat}

-----------------------------------------------------------------------------
(* struct Cal, MyApp.cal_data, and the run *)

VARIABLES
    gyro_points,       \* Cal.gyro_points
    acc_points,        \* Cal.acc_points
    mag_points,        \* Cal.mag_points
    acc_points_avg,    \* Cal.acc_points_avg
    gyro_points_avg,   \* Cal.gyro_points_avg
    cal_data,          \* Cal.cal_data: Option<CalData>
    ui_cal_data,       \* MyApp.cal_data: Option<CalData>
    status,            \* "running", or "panicked" once an unwrap() has failed
    op,                \* the operation called last
    arg,               \* the sample passed to it (Zero3 when it takes none)
    n_adds,            \* add calls so far
    n_loads,           \* load_from_file calls so far
    n_clears,          \* clear calls so far
    n_cals,            \* calibrate calls so far
    saved,             \* the file save_to_file wrote last, None before it
    quality,           \* a Quality (quality.rs)
    returned,          \* what the last call on the Quality returned
    probe,             \* a function of cal.rs or quality.rs applied to an input
    chan,              \* the two channels into MyApp, and MyApp's collection flags
    codec              \* the bytes a LineCodec was given, holds and has returned

vars == <<gyro_points, acc_points, mag_points, acc_points_avg, gyro_points_avg,
          cal_data, ui_cal_data, status, op, arg, n_adds, n_loads,
          n_clears, n_cals, saved, quality, returned, probe, chan, codec>>

\* What the operations of Cal on samples leave alone.
outside_cal == <<saved, quality, returned, probe, chan, codec>>

\* quality.rs: const REGION_COUNT
REGION_COUNT == 100
Regions == 0..(REGION_COUNT - 1)

\* impl Default for Quality
QualityDefault ==
    [sphere_dist |-> [i \in Regions |-> 0],
     sphere_data |-> [i \in Regions |-> Zero3],
     sphere_ideal |-> [i \in Regions |-> Zero3],
     magnitude |-> <<>>,
     sphereideal_initialized |-> FALSE,
     quality_gaps_computed |-> FALSE,
     quality_variance_computed |-> FALSE,
     quality_wobble_computed |-> FALSE,
     quality_gaps_buffer |-> R0,
     quality_variance_buffer |-> R0,
     quality_wobble_buffer |-> R0]

\* The fields of Cal and of MyApp, and the history of the calls on them.
inside_cal == <<gyro_points, acc_points, mag_points, acc_points_avg,
                gyro_points_avg, cal_data, ui_cal_data, status, op, arg,
                n_adds, n_loads, n_clears, n_cals>>

\* No function has been applied; function fn is to be applied to input.
NoProbe == [fn |-> "none"]
Probe(fn, input) == [fn |-> fn, in |-> input, out |-> None]

\* std::sync::mpsc::channel() twice (SerialDataProvider::new, Node::new) and
\* the flags of MyApp::new. pc is where MyApp::update stands: in its first
\* loop ("imu"), in its second ("mag") or after them ("ui"). sent and log
\* keep every record sent, and every record received with the flags it met;
\* clicks counts the clicks on the widgets that set the flags.
ChanNew ==
    [imu |-> <<>>, mag |-> <<>>,
     collect_mag |-> FALSE, collect_gyro |-> TRUE, collect_acc |-> FALSE,
     filter_standstill |-> FALSE,
     pc |-> "imu", clicks |-> 0,
     imu_sent |-> <<>>, mag_sent |-> <<>>,
     imu_log |-> <<>>, mag_log |-> <<>>]

\* A LineCodec's buffer before any byte arrived.
CodecNew == [src |-> <<>>, received |-> <<>>, items |-> <<>>, last |-> "new"]

\* Cal::new and MyApp::new; Quality::default
\* MyApp::new(): an empty Cal, no model; Quality::default().
NewApp ==
    /\ gyro_points = <<>>
    /\ acc_points = <<>>
    /\ mag_points = <<>>
    /\ acc_points_avg = Zero3
    /\ gyro_points_avg = Zero3
    /\ cal_data = None
    /\ ui_cal_data = None
    /\ status = "running"
    /\ op = "new"
    /\ arg = Zero3
    /\ n_adds = 0
    /\ n_loads = 0
    /\ n_clears = 0
    /\ n_cals = 0
    /\ saved = None
    /\ quality = QualityDefault
    /\ returned = None
    /\ chan = ChanNew
    /\ codec = CodecNew

Init == NewApp /\ probe = NoProbe

Called(name, data) == op' = name /\ arg' = data

-----------------------------------------------------------------------------
(* Accumulation *)

\* A variant of StillAvg with the two weights exchanged.
StillAvgSwapped(avg, data, alpha) ==
    VAdd(VScale(avg, RSub(R1, alpha)), VScale(data, alpha))

\* avg * alpha + data * (1.0 - alpha)
StillAvg(avg, data, alpha) == VAdd(VScale(avg, alpha), VScale(data, RSub(R1, alpha)))

\* (avg - data).norm() < tau
StillAccept(avg, data, tau) == NormLt(VSub(avg, data), tau)

add_acc_measurement_still(data) ==
    /\ status = "running" /\ n_adds < MaxAdds
    /\ acc_points_avg' = StillAvg(acc_points_avg, data, AccAlpha)
    /\ acc_points' = IF StillAccept(acc_points_avg', data, AccTau)
                     THEN Append(acc_points, data) ELSE acc_points
    /\ n_adds' = n_adds + 1
    /\ Called("add_acc_measurement_still", data)
    /\ UNCHANGED outside_cal
    /\ UNCHANGED <<gyro_points, mag_points, gyro_points_avg, cal_data, ui_cal_data,
                   status, n_loads, n_clears, n_cals>>

add_gyro_measurement_still(data) ==
    /\ status = "running" /\ n_adds < MaxAdds
    /\ gyro_points_avg' = StillAvg(gyro_points_avg, data, GyroAlpha)
    /\ gyro_points' = IF StillAccept(gyro_points_avg', data, GyroTau)
                      THEN Append(gyro_points, data) ELSE gyro_points
    /\ n_adds' = n_adds + 1
    /\ Called("add_gyro_measurement_still", data)
    /\ UNCHANGED outside_cal
    /\ UNCHANGED <<acc_points, mag_points, acc_points_avg, cal_data, ui_cal_data,
                   status, n_loads, n_clears, n_cals>>

\* A variant of add_gyro_measurement that feeds the sample to the average too.
add_gyro_measurement_averaging(data) ==
    /\ status = "running" /\ n_adds < MaxAdds
    /\ gyro_points' = Append(gyro_points, data)
    /\ gyro_points_avg' = StillAvg(gyro_points_avg, data, GyroAlpha)
    /\ n_adds' = n_adds + 1
    /\ Called("add_gyro_measurement", data)
    /\ UNCHANGED outside_cal
    /\ UNCHANGED <<acc_points, mag_points, acc_points_avg, cal_data, ui_cal_data,
                   status, n_loads, n_clears, n_cals>>

add_gyro_measurement(data) ==
    /\ status = "running" /\ n_adds < MaxAdds
    /\ gyro_points' = Append(gyro_points, data)
    /\ n_adds' = n_adds + 1
    /\ Called("add_gyro_measurement", data)
    /\ UNCHANGED outside_cal
    /\ UNCHANGED <<acc_points, mag_points, acc_points_avg, gyro_points_avg, cal_data,
                   ui_cal_data, status, n_loads, n_clears, n_cals>>

\* A variant of add_acc_measurement that keeps the sample only when it is near
\* the average.
add_acc_measurement_gated(data) ==
    /\ status = "running" /\ n_adds < MaxAdds
    /\ acc_points' = IF StillAccept(acc_points_avg, data, AccTau)
                     THEN Append(acc_points, data) ELSE acc_points
    /\ n_adds' = n_adds + 1
    /\ Called("add_acc_measurement", data)
    /\ UNCHANGED outside_cal
    /\ UNCHANGED <<gyro_points, mag_points, acc_points_avg, gyro_points_avg, cal_data,
                   ui_cal_data, status, n_loads, n_clears, n_cals>>

add_acc_measurement(data) ==
    /\ status = "running" /\ n_adds < MaxAdds
    /\ acc_points' = Append(acc_points, data)
    /\ n_adds' = n_adds + 1
    /\ Called("add_acc_measurement", data)
    /\ UNCHANGED outside_cal
    /\ UNCHANGED <<gyro_points, mag_points, acc_points_avg, gyro_points_avg, cal_data,
                   ui_cal_data, status, n_loads, n_clears, n_cals>>

\* A variant of add_mag_measurement that drops the stored model, as stale.
add_mag_measurement_dropping_model(data) ==
    /\ status = "running" /\ n_adds < MaxAdds
    /\ mag_points' = Append(mag_points, data)
    /\ cal_data' = None
    /\ n_adds' = n_adds + 1
    /\ Called("add_mag_measurement", data)
    /\ UNCHANGED outside_cal
    /\ UNCHANGED <<gyro_points, acc_points, acc_points_avg, gyro_points_avg,
                   ui_cal_data, status, n_loads, n_clears, n_cals>>

add_mag_measurement(data) ==
    /\ status = "running" /\ n_adds < MaxAdds
    /\ mag_points' = Append(mag_points, data)
    /\ n_adds' = n_adds + 1
    /\ Called("add_mag_measurement", data)
    /\ UNCHANGED outside_cal
    /\ UNCHANGED <<gyro_points, acc_points, acc_points_avg, gyro_points_avg, cal_data,
                   ui_cal_data, status, n_loads, n_clears, n_cals>>

clear_gyro_measurements ==
    /\ status = "running" /\ n_clears < MaxClears
    /\ n_clears' = n_clears + 1
    /\ gyro_points' = <<>>
    /\ Called("clear_gyro_measurements", Zero3)
    /\ UNCHANGED outside_cal
    /\ UNCHANGED <<acc_points, mag_points, acc_points_avg, gyro_points_avg, cal_data,
                   ui_cal_data, status, n_adds, n_loads, n_cals>>

\* A variant of clear_accel_measurements that also restarts the average.
clear_accel_and_average ==
    /\ status = "running" /\ n_clears < MaxClears
    /\ n_clears' = n_clears + 1
    /\ acc_points' = <<>>
    /\ acc_points_avg' = Zero3
    /\ Called("clear_accel_measurements", Zero3)
    /\ UNCHANGED outside_cal
    /\ UNCHANGED <<gyro_points, mag_points, gyro_points_avg, cal_data, ui_cal_data,
                   status, n_adds, n_loads, n_cals>>

clear_accel_measurements ==
    /\ status = "running" /\ n_clears < MaxClears
    /\ n_clears' = n_clears + 1
    /\ acc_points' = <<>>
    /\ Called("clear_accel_measurements", Zero3)
    /\ UNCHANGED outside_cal
    /\ UNCHANGED <<gyro_points, mag_points, acc_points_avg, gyro_points_avg, cal_data,
                   ui_cal_data, status, n_adds, n_loads, n_cals>>

clear_mag_measurements ==
    /\ status = "running" /\ n_clears < MaxClears
    /\ n_clears' = n_clears + 1
    /\ mag_points' = <<>>
    /\ Called("clear_mag_measurements", Zero3)
    /\ UNCHANGED outside_cal
    /\ UNCHANGED <<gyro_points, acc_points, acc_points_avg, gyro_points_avg, cal_data,
                   ui_cal_data, status, n_adds, n_loads, n_cals>>

\* load_from_file on a well-formed file: each array is appended to its sequence.
load_from_file(data) ==
    /\ status = "running" /\ n_loads < MaxLoads
    /\ acc_points' = acc_points \o data.acc
    /\ gyro_points' = gyro_points \o data.gyro
    /\ mag_points' = mag_points \o data.mag
    /\ n_loads' = n_loads + 1
    /\ Called("load_from_file", Zero3)
    /\ UNCHANGED outside_cal
    /\ UNCHANGED <<acc_points_avg, gyro_points_avg, cal_data, ui_cal_data, status,
                   n_adds, n_clears, n_cals>>

-----------------------------------------------------------------------------
(* Cal::calibrate: gyroscope and accelerometer *)

\* points.iter().map(|p| p.<axis>)
Components(points, axis) == [i \in 1..Len(points) |-> points[i][axis]]

\* s.iter().sum::<f64>() / s.len() as f64: NaN for an empty s.
Mean(s) == RDiv(RSum(s), LenF(s))

gyro_offset(points) ==
    Vec(Mean(Components(points, 1)), Mean(Components(points, 2)),
        Mean(Components(points, 3)))

\* Variant: the threshold itself counts as above it.
AboveThrInclusive(p) == RGt(p, G0_THR) \/ p = G0_THR

AboveThr(p) == RGt(p, G0_THR)
BelowThr(p) == RLt(p, RNeg(G0_THR))

\* .filter(|p| *p > G0_THR) and .filter(|p| *p < -G0_THR) of one axis
LobeP(points, axis) == SelectSeq(Components(points, axis), AboveThr)
LobeM(points, axis) == SelectSeq(Components(points, axis), BelowThr)

x_p(points) == LobeP(points, 1)
x_m(points) == LobeM(points, 1)
y_p(points) == LobeP(points, 2)
y_m(points) == LobeM(points, 2)
z_p(points) == LobeP(points, 3)
z_m(points) == LobeM(points, 3)

\* Variant: the difference of the lobe means instead of their sum.
acc_offset_difference(points) ==
    LET sx_p == Mean(x_p(points))
        sx_m == Mean(x_m(points))
        sy_p == Mean(y_p(points))
        sy_m == Mean(y_m(points))
        sz_p == Mean(z_p(points))
        sz_m == Mean(z_m(points))
    IN  Vec(RSub(sx_p, sx_m), RSub(sy_p, sy_m), RSub(sz_p, sz_m))

acc_offset(points) ==
    LET sx_p == Mean(x_p(points))
        sx_m == Mean(x_m(points))
        sy_p == Mean(y_p(points))
        sy_m == Mean(y_m(points))
        sz_p == Mean(z_p(points))
        sz_m == Mean(z_m(points))
    IN  Vec(RAdd(sx_p, sx_m), RAdd(sy_p, sy_m), RAdd(sz_p, sz_m))

\* As in the source, the ranges of y and z subtract the mean of x_m.
acc_scale(points) ==
    LET range_x == RSub(Mean(x_p(points)), Mean(x_m(points)))
        range_y == RSub(Mean(y_p(points)), Mean(x_m(points)))
        range_z == RSub(Mean(z_p(points)), Mean(x_m(points)))
        two_g0 == RMul(Rat(2, 1), G0)
    IN  Vec(RDiv(two_g0, range_x), RDiv(two_g0, range_y), RDiv(two_g0, range_z))

-----------------------------------------------------------------------------
(* Cal::fit_mag_ellipsoid and Cal::cac_mag_params_from_fit *)

\* Rows 7..10 of a column of the design matrix: 2x, 2y, 2z, 1.
DLinear(p, i) == IF i = 4 THEN R1 ELSE RMul(<<2, 1>>, p[i])

\* s_22: the 4x4 block (6, 6) of s = d_mat * d_mat.transpose().  Entry (i, j) is
\* the sum over the samples of row i times row j; s is symmetric.
ScatterEntry(points, i, j) ==
    RSum([k \in 1..Len(points) |-> RMul(DLinear(points[k], i), DLinear(points[k], j))])
s_22(points) ==
    LET s11 == ScatterEntry(points, 1, 1)
        s12 == ScatterEntry(points, 1, 2)
        s13 == ScatterEntry(points, 1, 3)
        s14 == ScatterEntry(points, 1, 4)
        s22 == ScatterEntry(points, 2, 2)
        s23 == ScatterEntry(points, 2, 3)
        s24 == ScatterEntry(points, 2, 4)
        s33 == ScatterEntry(points, 3, 3)
        s34 == ScatterEntry(points, 3, 4)
        s44 == ScatterEntry(points, 4, 4)
    IN  << <<s11, s12, s13, s14>>, <<s12, s22, s23, s24>>,
           <<s13, s23, s33, s34>>, <<s14, s24, s34, s44>> >>

\* The determinant of a 4x4 matrix, by cofactors of its first row.
Det4(m) ==
    LET row(r, a, b, c) == Vec(m[r][a], m[r][b], m[r][c])
        sub(a, b, c) == <<row(2, a, b, c), row(3, a, b, c), row(4, a, b, c)>>
    IN  RAdd(RSub(RMul(m[1][1], Det3(sub(2, 3, 4))), RMul(m[1][2], Det3(sub(1, 3, 4)))),
             RSub(RMul(m[1][3], Det3(sub(1, 2, 4))), RMul(m[1][4], Det3(sub(1, 2, 3)))))

\* s_22.try_inverse() is Some
S22Invertible(points) == The({Det4(m) : m \in {s_22(points)}}) # R0

\* The constraint matrix c is its 3x3 block and three times -4 on the diagonal;
\* c.try_inverse() is Some.
CBlock == <<Vec(Rat(-1, 1), R1, R1), Vec(R1, Rat(-1, 1), R1), Vec(R1, R1, Rat(-1, 1))>>
CInvertible == Det3(CBlock) # R0 /\ Rat(-4, 1) # R0

\* The eigen-decomposition of e (LAPACK) is not computed here.  What the fit
\* returns after it, (m, n, d), is one of these candidates: a sphere of radius 3
\* about the origin; a quadric with a singular m; one whose m has the eigenvalue
\* -1, which makes the first iterate of the square root singular; one with
\* n' m^-1 n - d below zero.  In each, m[0][0] >= 0, as the sign fix leaves it.
FitSphere == [m |-> Identity3, n |-> Zero3, d |-> Rat(-9, 1)]
FitSingular == [m |-> Diag3(R1, R1, R0), n |-> Zero3, d |-> Rat(-9, 1)]
FitNegative == [m |-> Diag3(R1, Rat(-1, 1), R1), n |-> Zero3, d |-> Rat(-9, 1)]
FitImaginary == [m |-> Identity3, n |-> Zero3, d |-> R1]
FitCandidates == {FitSphere, FitSingular, FitNegative, FitImaginary}

\* fit_mag_ellipsoid: the outcomes it can have on `points`.  None stands for the
\* panic of an unwrap() (c_inv, s_22_inv); otherwise it returns the (m, n, d) of
\* one of the candidates.
fit_mag_ellipsoid(points) ==
    IF ~CInvertible \/ ~S22Invertible(points) THEN {None}
    ELSE {Some(fit) : fit \in FitCandidates}

\* Variant: b = m_1 * n, without the minus sign.
cac_mag_params_from_fit_plus(f, m, n, d) ==
    LET m_1 == Mat3TryInverse(m)
        m_msqrt == mat3_m_sqrt(m, SqrtIterations)
        x1 == RSub(Dot(n, MatVec(m_1.val, n)), d)
        x1_sqrt == RSqrt(x1)
    IN  IF ~m_1.some \/ ~m_msqrt.some THEN None
        ELSE Some([a_1 |-> MatScale(m_msqrt.val, RDiv(f, x1_sqrt)),
                   b |-> MatVec(m_1.val, n)])

\* cac_mag_params_from_fit: None stands for the panic of an unwrap() (m_1, and
\* x.try_inverse() in mat3_m_sqrt).
cac_mag_params_from_fit(f, m, n, d) ==
    LET m_1 == Mat3TryInverse(m)
        m_msqrt == mat3_m_sqrt(m, SqrtIterations)
        x1 == RSub(Dot(n, MatVec(m_1.val, n)), d)
        x1_sqrt == RSqrt(x1)
    IN  IF ~m_1.some \/ ~m_msqrt.some THEN None
        ELSE Some([a_1 |-> MatScale(m_msqrt.val, RDiv(f, x1_sqrt)),
                   b |-> VNeg(MatVec(m_1.val, n))])

\* cac_mag_params_from_fit(F0, m, n, d) of each candidate, computed once.
MagParams == [fit \in FitCandidates |-> cac_mag_params_from_fit(F0, fit.m, fit.n, fit.d)]

\* The CalData calibrate() builds (lines 254-260) from the inertial results and
\* the (a_1, b) of cac_mag_params_from_fit.
CalData(gyro_off, acc_off, scale, ab) ==
    [gyro_offset |-> gyro_off,
     acc_offset |-> acc_off,
     acc_scale |-> scale,
     soft_iron_transf |-> ab.a_1,
     hard_iron_bias |-> ab.b]

\* calibrate() returned `result`: it is stored, and the button's handler keeps
\* the returned copy: self.cal_data = Some(self.cal.calibrate()).
Returned(result) ==
    /\ cal_data' = Some(result)
    /\ ui_cal_data' = Some(result)
    /\ status' = status

\* An unwrap() inside calibrate() panicked: nothing was stored.
Panicked ==
    /\ status' = "panicked"
    /\ UNCHANGED <<cal_data, ui_cal_data>>

\* The "Calibrate now" button: calibrate(), in the order of its statements.
calibrate ==
    /\ status = "running" /\ n_cals < MaxCalibrations
    /\ n_cals' = n_cals + 1
    /\ \E gyro_off \in {gyro_offset(gyro_points)} :
       \E acc_off \in {acc_offset(acc_points)} :
       \E scale \in {acc_scale(acc_points)} :
       \E mnd \in fit_mag_ellipsoid(mag_points) :
          IF ~mnd.some THEN Panicked
          ELSE IF ~MagParams[mnd.val].some THEN Panicked
          ELSE Returned(CalData(gyro_off, acc_off, scale, MagParams[mnd.val].val))
    /\ Called("calibrate", Zero3)
    /\ UNCHANGED outside_cal
    /\ UNCHANGED <<gyro_points, acc_points, mag_points, acc_points_avg,
                   gyro_points_avg, n_adds, n_loads, n_clears>>

\* Variant: the offset subtracted instead of added.
acc_measurements_with_cal_minus(points, model) ==
    IF model.some
    THEN [i \in 1..Len(points) |->
             ComponentMul(VSub(points[i], model.val.acc_offset), model.val.acc_scale)]
    ELSE <<>>

\* Cal::acc_measurements_with_cal, of self.acc_points and self.cal_data: the
\* samples under the model, an empty Vec when there is no model.
acc_measurements_with_cal(points, model) ==
    IF model.some
    THEN [i \in 1..Len(points) |->
             ComponentMul(VAdd(points[i], model.val.acc_offset), model.val.acc_scale)]
    ELSE <<>>

\* Variant: the offset added to the sample.
gyro_measurements_with_cal_plus(points, model) ==
    IF model.some
    THEN [i \in 1..Len(points) |-> VAdd(points[i], model.val.gyro_offset)]
    ELSE <<>>

\* Cal::gyro_measurements_with_cal, of self.gyro_points and self.cal_data
gyro_measurements_with_cal(points, model) ==
    IF model.some
    THEN [i \in 1..Len(points) |-> VSub(points[i], model.val.gyro_offset)]
    ELSE <<>>

\* CalData::apply_mag_cal
apply_mag_cal(model, mag_point) ==
    MatVec(model.soft_iron_transf, VSub(mag_point, model.hard_iron_bias))

\* Cal::mag_measurements_with_cal, of self.mag_points and self.cal_data
mag_measurements_with_cal(points, model) ==
    IF model.some
    THEN [i \in 1..Len(points) |-> apply_mag_cal(model.val, points[i])]
    ELSE <<>>

-----------------------------------------------------------------------------

Next ==
    \/ \E data \in AccSamples : add_acc_measurement_still(data)
    \/ \E data \in GyroSamples : add_gyro_measurement_still(data)
    \/ \E data \in GyroSamples : add_gyro_measurement(data)
    \/ \E data \in AccSamples : add_acc_measurement(data)
    \/ \E data \in MagSamples : add_mag_measurement(data)
    \/ clear_gyro_measurements
    \/ clear_accel_measurements
    \/ clear_mag_measurements
    \/ \E data \in Files : load_from_file(data)
    \/ calibrate

Spec == Init /\ [][Next]_vars

-----------------------------------------------------------------------------
(* Cal::save_to_file and Cal::load_from_file on the file it wrote           *)

\* serde_json on an f64: a finite number is written as a number that reads
\* back as the same f64; NaN and the infinities are written as null.
JsonOfF64(x) == IF IsFinite(x) THEN [tok |-> "number", val |-> x] ELSE [tok |-> "null"]
JsonOfPoints(points) ==
    [i \in 1..Len(points) |-> [axis \in 1..3 |-> JsonOfF64(points[i][axis])]]

\* serde_json::de::from_str into Vec<Vector3<f64>>: an error on null.
PointsReadable(json) ==
    \A i \in 1..Len(json) : \A axis \in 1..3 : json[i][axis].tok = "number"
PointsOfJson(json) ==
    [i \in 1..Len(json) |-> [axis \in 1..3 |-> json[i][axis].val]]

\* The "Save" menu entry: the three sequences as JSON; the file is taken to
\* be writable.
save_to_file ==
    /\ status = "running"
    /\ saved' = Some([acc |-> JsonOfPoints(acc_points),
                      gyro |-> JsonOfPoints(gyro_points),
                      mag |-> JsonOfPoints(mag_points)])
    /\ Called("save_to_file", Zero3)
    /\ UNCHANGED <<gyro_points, acc_points, mag_points, acc_points_avg,
                   gyro_points_avg, cal_data, ui_cal_data, status, n_adds,
                   n_loads, n_clears, n_cals, quality, returned, probe, chan,
                   codec>>

\* The "Open" menu entry on the file written last: from_str(..).unwrap()
\* panics on a null, otherwise the arrays are appended.
load_saved_file ==
    /\ saved.some
    /\ IF /\ PointsReadable(saved.val.acc) /\ PointsReadable(saved.val.gyro)
          /\ PointsReadable(saved.val.mag)
       THEN load_from_file([acc |-> PointsOfJson(saved.val.acc),
                            gyro |-> PointsOfJson(saved.val.gyro),
                            mag |-> PointsOfJson(saved.val.mag)])
       ELSE /\ status = "running" /\ n_loads < MaxLoads
            /\ status' = "panicked"
            /\ n_loads' = n_loads + 1
            /\ Called("load_from_file", Zero3)
            /\ UNCHANGED outside_cal
            /\ UNCHANGED <<gyro_points, acc_points, mag_points, acc_points_avg,
                           gyro_points_avg, cal_data, ui_cal_data, n_adds,
                           n_clears, n_cals>>

\* A field reading with a component that is not finite.
MagNotFinite == Vec(NaN, R0, R0)

NextFile ==
    \/ \E data \in GyroSamples : add_gyro_measurement_still(data)
    \/ \E data \in GyroSamples : add_gyro_measurement(data)
    \/ \E data \in AccSamples : add_acc_measurement(data)
    \/ \E data \in MagSamples \cup {MagNotFinite} : add_mag_measurement(data)
    \/ clear_accel_measurements
    \/ save_to_file
    \/ load_saved_file

SpecFile == Init /\ [][NextFile]_vars

-----------------------------------------------------------------------------
(* quality.rs: sphere_region                                                *)
(* Angles are rationals in radians.  PI is 355/113; atan2 is exact on the   *)
(* axes and diagonals (multiples of PI/4) and given to four decimals for    *)
(* the slopes 1/2, 3/4, 4/3 and 2, which lie far from every boundary of a   *)
(* region.                                                                  *)

PI == Rat(355, 113)
FRAC_PI_2 == RDiv(PI, Rat(2, 1))
TAU == RMul(Rat(2, 1), PI)

\* x >= y, false when either is NaN.
RGe(x, y) == RGt(x, y) \/ (x = y /\ ~IsNaN(x))
RAbs(x) == <<Abs(x[1]), x[2]>>

\* atan(1/2) and atan(3/4)
AtanHalf == Rat(4636, 10000)
AtanThreeQuarters == Rat(6435, 10000)

\* atan2(y, x) for y >= 0 and x >= 0, none NaN: by the slope y/x, one of
\* 0, 1/2, 3/4, 1, 4/3, 2 and infinity.
AtanFirstQuadrant(y, x) ==
    CASE y[2] = 0 /\ x[2] = 0 -> RDiv(PI, Rat(4, 1))
      [] y[2] = 0 -> FRAC_PI_2
      [] x[2] = 0 -> R0
      [] y[1] = 0 -> R0
      [] x[1] = 0 -> FRAC_PI_2
      [] y = x -> RDiv(PI, Rat(4, 1))
      [] RMul(Rat(2, 1), y) = x -> AtanHalf
      [] y = RMul(Rat(2, 1), x) -> RSub(FRAC_PI_2, AtanHalf)
      [] RMul(Rat(4, 1), y) = RMul(Rat(3, 1), x) -> AtanThreeQuarters
      [] RMul(Rat(3, 1), y) = RMul(Rat(4, 1), x) -> RSub(FRAC_PI_2, AtanThreeQuarters)

\* f64::atan2 (zeros are +0.0)
Atan2(y, x) ==
    IF IsNaN(y) \/ IsNaN(x) THEN NaN
    ELSE IF x[1] >= 0
         THEN (IF y[1] >= 0 THEN AtanFirstQuadrant(y, x)
                            ELSE RNeg(AtanFirstQuadrant(RAbs(y), x)))
         ELSE (IF y[1] >= 0 THEN RSub(PI, AtanFirstQuadrant(y, RAbs(x)))
                            ELSE RSub(AtanFirstQuadrant(RAbs(y), RAbs(x)), PI))

\* f64::floor() as i32: the cast saturates and sends NaN to 0.
I32Max == 2147483647
FloorAsI32(x) ==
    IF IsNaN(x) THEN 0
    ELSE IF x[2] = 0 THEN (IF x[1] > 0 THEN I32Max ELSE -I32Max - 1)
    ELSE x[1] \div x[2]

\* Variant: the index of a zone is limited to the number of its regions
\* instead of its last index.
sphere_region_of_clamped_late(longitude, latitude) ==
    IF RGt(latitude, Rat(137046, 100000)) THEN 0
    ELSE IF RLt(latitude, Rat(-137046, 100000)) THEN 99
    ELSE IF RGt(latitude, Rat(74776, 100000)) \/ RLt(latitude, Rat(-74776, 100000))
    THEN LET region == FloorAsI32(RMul(longitude, RDiv(Rat(15, 1), TAU)))
             clamped == IF region < 0 THEN 0 ELSE IF region > 15 THEN 15 ELSE region
         IN  IF RGt(latitude, R0) THEN clamped + 1 ELSE clamped + 84
    ELSE LET region == FloorAsI32(RMul(longitude, RDiv(Rat(34, 1), TAU)))
             clamped == IF region < 0 THEN 0 ELSE IF region > 34 THEN 34 ELSE region
         IN  IF RGe(latitude, R0) THEN clamped + 16 ELSE clamped + 50

\* sphere_region from its third statement on: the region of a longitude and
\* a latitude.
sphere_region_of(longitude, latitude) ==
    IF RGt(latitude, Rat(137046, 100000)) THEN 0
    ELSE IF RLt(latitude, Rat(-137046, 100000)) THEN 99
    ELSE IF RGt(latitude, Rat(74776, 100000)) \/ RLt(latitude, Rat(-74776, 100000))
    THEN LET region == FloorAsI32(RMul(longitude, RDiv(Rat(15, 1), TAU)))
             clamped == IF region < 0 THEN 0 ELSE IF region > 14 THEN 14 ELSE region
         IN  IF RGt(latitude, R0) THEN clamped + 1 ELSE clamped + 84
    ELSE LET region == FloorAsI32(RMul(longitude, RDiv(Rat(34, 1), TAU)))
             clamped == IF region < 0 THEN 0 ELSE IF region > 33 THEN 33 ELSE region
         IN  IF RGe(latitude, R0) THEN clamped + 16 ELSE clamped + 50

longitude_of(p) == RAdd(Atan2(p[2], p[1]), PI)
latitude_of(p) ==
    RSub(FRAC_PI_2, Atan2(RSqrt(RAdd(RMul(p[1], p[1]), RMul(p[2], p[2]))), p[3]))

sphere_region(p) == sphere_region_of(longitude_of(p), latitude_of(p))

\* Field readings: on the axes, at latitudes of slope 0, 1/2, 1, 2, at the
\* poles, the zero vector, and readings with NaN or infinite components.
Inf == <<1, 0>>
RegionVectors ==
    {V3(x, 0, z, 1) : x \in {-4, 4}, z \in {-8, -4, -2, 0, 2, 4, 8}}
    \cup {V3(0, y, z, 1) : y \in {-4, 4}, z \in {-8, -4, -2, 0, 2, 4, 8}}
    \cup {V3(0, 0, z, 1) : z \in {-3, 0, 3}}
    \cup {Vec(NaN, R0, R1), Vec(R1, NaN, R0), Vec(R0, R1, NaN), Vec(NaN, NaN, NaN),
          Vec(Inf, R0, R0), Vec(RNeg(Inf), R0, R1), Vec(R0, Inf, Inf),
          Vec(Inf, Inf, RNeg(Inf)), Vec(R1, R0, Inf), Vec(R0, R0, RNeg(Inf)),
          Vec(Inf, RNeg(Inf), NaN)}

\* Longitudes and latitudes: the boundaries between regions, values beside
\* them, the ends of the ranges atan2 delivers, values outside them, NaN.
Step == Rat(1, 100000)
Longitudes ==
    {R0, Step, RDiv(TAU, Rat(15, 1)), RDiv(TAU, Rat(34, 1)), PI,
     RSub(TAU, Step), TAU, RAdd(TAU, Step), RNeg(Step), Inf, RNeg(Inf), NaN}
LatitudeMarks == {R0, Rat(74776, 100000), Rat(137046, 100000), FRAC_PI_2}
Latitudes ==
    UNION {{l, RAdd(l, Step), RSub(l, Step), RNeg(l), RNeg(RAdd(l, Step)),
            RNeg(RSub(l, Step))} : l \in LatitudeMarks} \cup {NaN}

-----------------------------------------------------------------------------
(* quality.rs: struct Quality                                               *)
(* A Quality is a record of its fields.  Scores are rationals; a square     *)
(* root that is not rational is cut to two decimals, and so are the sines   *)
(* and cosines of sphere_ideal.                                             *)

MaxUpdates == 3

\* The largest i in lo..hi with i * i <= n.
RECURSIVE RootBetween(_, _, _)
RootBetween(n, lo, hi) ==
    IF lo >= hi THEN lo
    ELSE IF ((lo + hi + 1) \div 2) * ((lo + hi + 1) \div 2) <= n
         THEN RootBetween(n, (lo + hi + 1) \div 2, hi)
         ELSE RootBetween(n, lo, (lo + hi + 1) \div 2 - 1)
Root(n) == RootBetween(n, 0, 46340)

\* f64::sqrt: NaN below zero; exact where the root is rational.
Sqrt(x) ==
    IF IsNaN(x) \/ x[1] < 0 THEN NaN
    ELSE IF x[2] = 0 THEN x
    ELSE IF Root(x[1]) * Root(x[1]) = x[1] /\ Root(x[2]) * Root(x[2]) = x[2]
    THEN <<Root(x[1]), Root(x[2])>>
    ELSE Rat(Root((x[1] \div x[2]) * 10000 + ((x[1] % x[2]) * 10000) \div x[2]), 100)

\* sphere_ideal as reset() fills it, in hundredths: region i is entry i + 1.
\* (-cos(longitude) * cos(l), -sin(longitude) * cos(l), +-sin(l)) with
\* l = 1.05911 and longitude = (i - 1 + 0.5) * TAU / 15 for 1..15 and for
\* 84..98, l = 0.37388 and longitude = (i - 16 + 0.5) * TAU / 34 for 16..49,
\* (i - 50 + 0.5) * TAU / 34 for 50..83; the poles for 0 and 99.
SphereIdealHundredths ==
    << <<0, 0, 100>>, <<-48, -10, 87>>, <<-40, -29, 87>>, <<-24, -42, 87>>, <<-5, -49, 87>>,
       <<15, -47, 87>>, <<33, -36, 87>>, <<45, -20, 87>>, <<49, 0, 87>>, <<45, 20, 87>>,
       <<33, 36, 87>>, <<15, 47, 87>>, <<-5, 49, 87>>, <<-24, 42, 87>>, <<-40, 29, 87>>,
       <<-48, 10, 87>>, <<-93, -9, 37>>, <<-90, -25, 37>>, <<-83, -41, 37>>, <<-74, -56, 37>>,
       <<-63, -69, 37>>, <<-49, -79, 37>>, <<-34, -87, 37>>, <<-17, -92, 37>>, <<0, -93, 37>>,
       <<17, -92, 37>>, <<34, -87, 37>>, <<49, -79, 37>>, <<63, -69, 37>>, <<74, -56, 37>>,
       <<83, -41, 37>>, <<90, -25, 37>>, <<93, -9, 37>>, <<93, 9, 37>>, <<90, 25, 37>>,
       <<83, 41, 37>>, <<74, 56, 37>>, <<63, 69, 37>>, <<49, 79, 37>>, <<34, 87, 37>>,
       <<17, 92, 37>>, <<0, 93, 37>>, <<-17, 92, 37>>, <<-34, 87, 37>>, <<-49, 79, 37>>,
       <<-63, 69, 37>>, <<-74, 56, 37>>, <<-83, 41, 37>>, <<-90, 25, 37>>, <<-93, 9, 37>>,
       <<-93, -9, -37>>, <<-90, -25, -37>>, <<-83, -41, -37>>, <<-74, -56, -37>>, <<-63, -69, -37>>,
       <<-49, -79, -37>>, <<-34, -87, -37>>, <<-17, -92, -37>>, <<0, -93, -37>>, <<17, -92, -37>>,
       <<34, -87, -37>>, <<49, -79, -37>>, <<63, -69, -37>>, <<74, -56, -37>>, <<83, -41, -37>>,
       <<90, -25, -37>>, <<93, -9, -37>>, <<93, 9, -37>>, <<90, 25, -37>>, <<83, 41, -37>>,
       <<74, 56, -37>>, <<63, 69, -37>>, <<49, 79, -37>>, <<34, 87, -37>>, <<17, 92, -37>>,
       <<0, 93, -37>>, <<-17, 92, -37>>, <<-34, 87, -37>>, <<-49, 79, -37>>, <<-63, 69, -37>>,
       <<-74, 56, -37>>, <<-83, 41, -37>>, <<-90, 25, -37>>, <<-93, 9, -37>>, <<45, 20, -87>>,
       <<33, 36, -87>>, <<15, 47, -87>>, <<-5, 49, -87>>, <<-24, 42, -87>>, <<-40, 29, -87>>,
       <<-48, 10, -87>>, <<-48, -10, -87>>, <<-40, -29, -87>>, <<-24, -42, -87>>, <<-5, -49, -87>>,
       <<15, -47, -87>>, <<33, -36, -87>>, <<45, -20, -87>>, <<49, 0, -87>>, <<0, 0, -100>> >>
SphereIdeal ==
    [i \in Regions |-> V3(SphereIdealHundredths[i + 1][1], SphereIdealHundredths[i + 1][2],
                          SphereIdealHundredths[i + 1][3], 100)]

\* reset(): the longitude and the latitude l from which it computes
\* sphere_ideal[i] = (-cos(longitude) * cos(l), -sin(longitude) * cos(l),
\* sin(l)), for the regions between the poles.
ideal_longitude(i) ==
    IF i <= 15 THEN RMul(Rat(2 * (i - 1) + 1, 2), RDiv(TAU, Rat(15, 1)))
    ELSE IF i <= 49 THEN RMul(Rat(2 * (i - 16) + 1, 2), RDiv(TAU, Rat(34, 1)))
    ELSE IF i <= 83 THEN RMul(Rat(2 * (i - 50) + 1, 2), RDiv(TAU, Rat(34, 1)))
    ELSE RMul(Rat(2 * (i - 1) + 1, 2), RDiv(TAU, Rat(15, 1)))
ideal_latitude(i) ==
    IF i <= 15 THEN Rat(105911, 100000)
    ELSE IF i <= 49 THEN Rat(37388, 100000)
    ELSE IF i <= 83 THEN Rat(-37388, 100000)
    ELSE Rat(-105911, 100000)

\* The angles sphere_region finds for sphere_ideal[i]: atan2(-sin(a) * c,
\* -cos(a) * c) + PI with c > 0 is a less its whole turns, and
\* FRAC_PI_2 - atan2(cos(l), sin(l)) is l.
IdealAngles(i) ==
    [longitude |-> RSub(ideal_longitude(i),
                        RMul(Rat((ideal_longitude(i)[1] * TAU[2])
                                     \div (ideal_longitude(i)[2] * TAU[1]), 1), TAU)),
     latitude |-> ideal_latitude(i)]

\* sphere_region(sphere_ideal[i])
sphere_region_of_ideal(i) ==
    IF i = 0 THEN sphere_region(V3(0, 0, 1, 1))
    ELSE IF i = REGION_COUNT - 1 THEN sphere_region(V3(0, 0, -1, 1))
    ELSE sphere_region_of(IdealAngles(i).longitude, IdealAngles(i).latitude)

\* Quality::reset
reset(q) ==
    [q EXCEPT !.magnitude = <<>>,
              !.sphere_dist = [i \in Regions |-> 0],
              !.sphere_data = [i \in Regions |-> Zero3],
              !.sphere_ideal = IF q.sphereideal_initialized THEN @ ELSE SphereIdeal,
              !.sphereideal_initialized = TRUE,
              !.quality_gaps_computed = FALSE,
              !.quality_variance_computed = FALSE,
              !.quality_wobble_computed = FALSE]

\* What a function of &mut self leaves in self and what it returns.
Ret(q, val) == [q |-> q, val |-> val]

\* Variant: a region with one sample weighs more than an empty one.
GapWeightRising(num) ==
    IF num = 0 THEN R1 ELSE IF num = 1 THEN Rat(12, 10) ELSE IF num = 2 THEN Rat(1, 100) ELSE R0

\* calc_surface_gap_error: what a region with num samples adds to the error
GapWeight(num) ==
    IF num = 0 THEN R1 ELSE IF num = 1 THEN Rat(2, 10) ELSE IF num = 2 THEN Rat(1, 100) ELSE R0

\* Variant: the loop starts at region 1 and leaves region 0 out.
GapErrorFromOne(dist) ==
    RAdd(RAdd(RMul(<<Cardinality({i \in Regions \ {0} : dist[i] = 0}), 1>>, GapWeight(0)),
              RMul(<<Cardinality({i \in Regions \ {0} : dist[i] = 1}), 1>>, GapWeight(1))),
         RMul(<<Cardinality({i \in Regions \ {0} : dist[i] = 2}), 1>>, GapWeight(2)))

\* The sum over the regions of their weights, by the number of samples.
GapError(dist) ==
    RAdd(RAdd(RMul(<<Cardinality({i \in Regions : dist[i] = 0}), 1>>, GapWeight(0)),
              RMul(<<Cardinality({i \in Regions : dist[i] = 1}), 1>>, GapWeight(1))),
         RMul(<<Cardinality({i \in Regions : dist[i] = 2}), 1>>, GapWeight(2)))

\* Quality::calc_surface_gap_error
calc_surface_gap_error(q) ==
    IF q.quality_gaps_computed THEN Ret(q, q.quality_gaps_buffer)
    ELSE Ret([q EXCEPT !.quality_gaps_buffer = GapError(q.sphere_dist),
                       !.quality_gaps_computed = TRUE],
             GapError(q.sphere_dist))

Hundred == Rat(100, 1)

SquaredDiffs(s, mean) ==
    [i \in 1..Len(s) |-> RMul(RSub(s[i], mean), RSub(s[i], mean))]
VarianceError(s) ==
    RMul(RDiv(Sqrt(RDiv(RSum(SquaredDiffs(s, Mean(s))), LenF(s))), Mean(s)), Hundred)

\* Quality::calc_magnitude_variance_error
calc_magnitude_variance_error(q) ==
    IF q.quality_variance_computed THEN Ret(q, q.quality_variance_buffer)
    ELSE Ret([q EXCEPT !.quality_variance_buffer = VarianceError(q.magnitude),
                       !.quality_variance_computed = TRUE],
             VarianceError(q.magnitude))

\* The populated regions in the order of the loop, and for each the mean of
\* its samples less the ideal point scaled to the radius.
RegionSeq == [i \in 1..REGION_COUNT |-> i - 1]
Populated(q) == SelectSeq(RegionSeq, LAMBDA i : q.sphere_dist[i] > 0)
Offsets(q, pop, radius, axis) ==
    [k \in 1..Len(pop) |->
        RSub(RDiv(q.sphere_data[pop[k]][axis], <<q.sphere_dist[pop[k]], 1>>),
             RMul(q.sphere_ideal[pop[k]][axis], radius))]
MeanOffset(q, pop, radius, axis) == RDiv(RSum(Offsets(q, pop, radius, axis)), LenF(pop))
WobbleOf(xoff, yoff, zoff, radius) ==
    RMul(RDiv(Sqrt(RAdd(RAdd(RMul(xoff, xoff), RMul(yoff, yoff)), RMul(zoff, zoff))),
              radius),
         Hundred)
WobbleError(q, pop, radius) ==
    LET xoff == MeanOffset(q, pop, radius, 1)
        yoff == MeanOffset(q, pop, radius, 2)
        zoff == MeanOffset(q, pop, radius, 3)
    IN  WobbleOf(xoff, yoff, zoff, radius)

\* Quality::calc_wobble_error: with no populated region 100.0 is returned and
\* neither the buffer nor the flag is written.
calc_wobble_error(q) ==
    IF q.quality_wobble_computed THEN Ret(q, q.quality_wobble_buffer)
    ELSE LET pop == Populated(q)
             radius == Mean(q.magnitude)
             wobble == WobbleError(q, pop, radius)
         IN  IF pop = <<>> THEN Ret(q, Hundred)
             ELSE Ret([q EXCEPT !.quality_wobble_buffer = wobble,
                                !.quality_wobble_computed = TRUE],
                      wobble)

\* The accessors
magnitude_variance_error(q) == q.quality_variance_buffer
wobble_error(q) == q.quality_wobble_buffer
surface_gap_error(q) == q.quality_gaps_buffer

\* Variant: the cached scores are not invalidated.
record_sample_keeping_caches(q, p) ==
    [q EXCEPT !.magnitude = Append(@, Sqrt(RAdd(RAdd(RMul(p[1], p[1]), RMul(p[2], p[2])),
                                                RMul(p[3], p[3])))),
              !.sphere_dist[sphere_region(p)] = @ + 1,
              !.sphere_data[sphere_region(p)] = VAdd(@, p)]

\* Quality::update up to its calls of the three calc functions
record_sample(q, p) ==
    [q EXCEPT !.magnitude = Append(@, Sqrt(RAdd(RAdd(RMul(p[1], p[1]), RMul(p[2], p[2])),
                                                RMul(p[3], p[3])))),
              !.sphere_dist[sphere_region(p)] = @ + 1,
              !.sphere_data[sphere_region(p)] = VAdd(@, p),
              !.quality_gaps_computed = FALSE,
              !.quality_variance_computed = FALSE,
              !.quality_wobble_computed = FALSE]

\* Field readings of magnitude 5 and 10, in six regions; two share a region.
UpdateVectors ==
    {V3(3, 0, 4, 1), V3(-3, 0, 4, 1), V3(4, 0, 3, 1), V3(0, 6, -8, 1), V3(0, 0, 5, 1),
     V3(6, 0, 8, 1), V3(0, -4, -3, 1)}

Call(name, data, val) == Some([call |-> name, arg |-> data, val |-> val])

quality_reset ==
    /\ quality' = reset(quality)
    /\ returned' = Call("reset", Zero3, R0)
    /\ UNCHANGED <<inside_cal, saved, probe, chan, codec>>

\* Quality::update
quality_update(p) ==
    /\ Len(quality.magnitude) < MaxUpdates
    /\ \E q1 \in {record_sample(quality, p)} :
       \E q2 \in {calc_magnitude_variance_error(q1).q} :
       \E q3 \in {calc_surface_gap_error(q2).q} :
       \E q4 \in {calc_wobble_error(q3).q} :
          quality' = q4
    /\ returned' = Call("update", p, R0)
    /\ UNCHANGED <<inside_cal, saved, probe, chan, codec>>

quality_calc_surface_gap_error ==
    /\ \E r \in {calc_surface_gap_error(quality)} :
          /\ quality' = r.q
          /\ returned' = Call("calc_surface_gap_error", Zero3, r.val)
    /\ UNCHANGED <<inside_cal, saved, probe, chan, codec>>

quality_calc_wobble_error ==
    /\ \E r \in {calc_wobble_error(quality)} :
          /\ quality' = r.q
          /\ returned' = Call("calc_wobble_error", Zero3, r.val)
    /\ UNCHANGED <<inside_cal, saved, probe, chan, codec>>

NextQuality ==
    \/ quality_reset
    \/ \E p \in UpdateVectors : quality_update(p)
    \/ quality_calc_surface_gap_error
    \/ quality_calc_wobble_error

SpecQuality == Init /\ [][NextQuality]_vars

-----------------------------------------------------------------------------
(* The functions on their own: an input is drawn, the function is applied   *)
(* to it once.                                                              *)

MaxMeanLen == 3

\* The non-empty sequences over S of at most n elements.
SeqsUpTo(S, n) == UNION {[1..k -> S] : k \in 1..n}

\* Angular velocities as the f64 values the sensor delivers.
F64Vectors ==
    {Vec(F64Tenth, F64Tenth, F64Tenth), Vec(F64Tenth, F64Half, F64One),
     Vec(F64ThreeTenths, F64One, F64Half), Vec(F64Half, F64Half, F64Half)}
GyroRuns == SeqsUpTo(F64Vectors, MaxMeanLen)

\* s.iter().sum::<f64>() / s.len() as f64, every operation rounded.
F64Mean(s) == F64DivCount(F64Sum(s), Len(s))

\* calibrate: gyro_offset, as f64 computes it
gyro_offset_f64(points) ==
    Vec(F64Mean(Components(points, 1)), F64Mean(Components(points, 2)),
        F64Mean(Components(points, 3)))

calibrate_gyro_offset ==
    /\ probe.fn = "gyro_offset" /\ probe.out = None
    /\ probe' = [probe EXCEPT !.out = Some(gyro_offset_f64(probe.in))]
    /\ UNCHANGED <<inside_cal, saved, quality, returned, chan, codec>>

ClusterSize == 20

\* Accelerations with components at the lobe threshold, just beyond it, at
\* g0 and at zero; some have two components beyond the threshold.
ThrUp == RAdd(G0_THR, Rat(1, 80000))
AccVectors ==
    {Vec(G0_THR, R0, RNeg(G0_THR)), Vec(ThrUp, RNeg(ThrUp), R0),
     Vec(RNeg(G0), ThrUp, G0), Vec(G0, G0, RNeg(G0))}
AccRuns == SeqsUpTo(AccVectors, MaxMeanLen)

\* Six clusters of ClusterSize samples, each at +g0 or -g0 on one axis and
\* zero on the other two.
SixClusters ==
    [i \in 1..(6 * ClusterSize) |-> SixLobes(Zero3, One3)[(i - 1) \div ClusterSize + 1]]

\* calibrate: the six lobes, acc_offset and acc_scale
calibrate_acc ==
    /\ probe.fn = "acc" /\ probe.out = None
    /\ probe' = [probe EXCEPT !.out =
                    Some([p |-> <<x_p(probe.in), y_p(probe.in), z_p(probe.in)>>,
                          m |-> <<x_m(probe.in), y_m(probe.in), z_m(probe.in)>>,
                          acc_offset |-> acc_offset(probe.in),
                          acc_scale |-> acc_scale(probe.in)])]
    /\ UNCHANGED <<inside_cal, saved, quality, returned, chan, codec>>

\* Stores of up to two accelerations and the model beside them: none, one
\* with an offset and a scale on every axis, one whose offset has a NaN (an
\* empty lobe), and the neutral one.
ViewPoints == {<<>>} \cup SeqsUpTo({V3(1, 2, 3, 1), V3(-1, 0, 5, 2)}, 2)
ModelOf(acc_off, scale) ==
    Some(CalData(Zero3, acc_off, scale, [a_1 |-> Identity3, b |-> Zero3]))
ViewModels ==
    {None, ModelOf(V3(1, 0, -2, 2), Vec(R1, Rat(2, 1), Rat(1, 2))),
     ModelOf(Vec(NaN, R0, R1), Vec(R1, NaN, Rat(3, 1))), ModelOf(Zero3, One3)}

acc_measurements_with_cal_call ==
    /\ probe.fn = "acc_measurements_with_cal" /\ probe.out = None
    /\ probe' = [probe EXCEPT !.out =
                    Some(acc_measurements_with_cal(probe.in.acc_points,
                                                   probe.in.cal_data))]
    /\ UNCHANGED <<inside_cal, saved, quality, returned, chan, codec>>

sphere_region_call ==
    /\ probe.fn = "sphere_region" /\ probe.out = None
    /\ probe' = [probe EXCEPT !.out = Some(sphere_region(probe.in))]
    /\ UNCHANGED <<inside_cal, saved, quality, returned, chan, codec>>

sphere_region_of_angles ==
    /\ probe.fn = "sphere_region_of" /\ probe.out = None
    /\ probe' = [probe EXCEPT !.out =
                    Some(sphere_region_of(probe.in.longitude, probe.in.latitude))]
    /\ UNCHANGED <<inside_cal, saved, quality, returned, chan, codec>>

\* Region counts for the surface-gap error: one count up to a region and
\* another from it on, and counts that cycle 0, 1, 2, 3 over the regions.
GapCuts == {0, 1, 50, 99, REGION_COUNT}
GapCounts == 0..4
GapDists ==
    {[i \in Regions |-> IF i < cut THEN n1 ELSE n2] :
         cut \in GapCuts, n1 \in GapCounts, n2 \in GapCounts}
    \cup {[i \in Regions |-> (i + k) % 4] : k \in 0..3}

\* Quality::calc_surface_gap_error on a scorer with no score cached
calc_surface_gap_error_call ==
    /\ probe.fn = "calc_surface_gap_error" /\ probe.out = None
    /\ probe' = [probe EXCEPT !.out = Some(calc_surface_gap_error(probe.in))]
    /\ UNCHANGED <<inside_cal, saved, quality, returned, chan, codec>>

\* reset() fills sphere_ideal[i]; sphere_region is applied to it
sphere_region_of_ideal_call ==
    /\ probe.fn = "sphere_ideal" /\ probe.out = None
    /\ probe' = [probe EXCEPT !.out =
                    Some([angles |-> IF probe.in \in {0, REGION_COUNT - 1} THEN None
                                     ELSE Some(IdealAngles(probe.in)),
                          region |-> sphere_region_of_ideal(probe.in)])]
    /\ UNCHANGED <<inside_cal, saved, quality, returned, chan, codec>>

\* Matrices for mat3_m_sqrt.  The identity; two shears, a - I with square
\* zero and with cube zero; a mirror and a half turn, orthogonal with the
\* eigenvalue -1; a diagonal and a coupled matrix, symmetric and positive
\* definite.
Shear == <<Vec(R1, Rat(2, 1), R0), Vec(R0, R1, R0), Vec(R0, R0, R1)>>
ShearTwice == <<Vec(R1, Rat(2, 1), R0), Vec(R0, R1, Rat(4, 1)), Vec(R0, R0, R1)>>
Mirror == Diag3(R1, Rat(-1, 1), R1)
HalfTurn == Diag3(Rat(-1, 1), Rat(-1, 1), R1)
Stretch == Diag3(Rat(4, 1), R1, Rat(9, 1))
Coupled == <<Vec(Rat(2, 1), R1, R0), Vec(R1, Rat(2, 1), R0), Vec(R0, R0, R1)>>
\* The iterates of the last two are followed for two steps, where their
\* numerators are still small; the others through the SqrtIterations steps of
\* calibrate.
MSqrtInputs ==
    {[a |-> a, iter_count |-> n] :
         a \in {Identity3, Shear, ShearTwice, Mirror, HalfTurn},
         n \in {0, 1, 2, 3, SqrtIterations}}
    \cup {[a |-> a, iter_count |-> n] : a \in {Stretch, Coupled}, n \in {0, 1, 2}}

\* mat3_m_sqrt(a, iter_count); None is the panic of its unwrap()
mat3_m_sqrt_call ==
    /\ probe.fn = "mat3_m_sqrt" /\ probe.out = None
    /\ probe' = [probe EXCEPT !.out = Some(mat3_m_sqrt(probe.in.a, probe.in.iter_count))]
    /\ UNCHANGED <<inside_cal, saved, quality, returned, chan, codec>>

\* The (m, n, d) of the sphere of radius r about c, as a fit that passes
\* through its samples returns it: x'x - 2 c'x + c'c - r^2 = 0.
SphereFit(c, r) ==
    [m |-> Identity3, n |-> VNeg(c), d |-> RSub(Dot(c, c), Rat(r * r, 1))]
\* Field readings at distance 3 and at distance 5 from c.
AtThree(c) ==
    <<VAdd(c, V3(3, 0, 0, 1)), VAdd(c, V3(-1, -2, -2, 1)), VAdd(c, V3(2, 1, 2, 1)),
      VAdd(c, V3(0, 0, -3, 1))>>
AtFive(c) ==
    <<VAdd(c, V3(3, 4, 0, 1)), VAdd(c, V3(0, -5, 0, 1)), VAdd(c, V3(0, 3, -4, 1))>>
MagCentres == {Zero3, V3(1, -2, 2, 1), V3(-7, 0, 1, 2)}
\* The reference magnitudes of calibrate() and of the test, the fits, and
\* readings that are on the fitted sphere or on the other one.
MagFitInputs ==
    {[f |-> f, fit |-> SphereFit(c, r),
      points |-> IF at = 3 THEN AtThree(c) ELSE AtFive(c)] :
         f \in {F0, Rat(1000, 1)}, c \in MagCentres, r \in {3, 5}, at \in {3, 5}}

\* cac_mag_params_from_fit(f, m, n, d), and the model it gives applied to the
\* readings behind the fit; None is the panic of an unwrap()
\* (the (a_1, b) of every input, computed once)
MagFitParams ==
    [input \in MagFitInputs |->
        cac_mag_params_from_fit(input.f, input.fit.m, input.fit.n, input.fit.d)]

\* The call itself, and mag_measurements_with_cal under the model it gives.
mag_model_of_fit ==
    /\ probe.fn = "cac_mag_params_from_fit" /\ probe.out = None
    /\ \E ab \in {MagFitParams[probe.in]} :
           probe' = [probe EXCEPT !.out =
                        IF ~ab.some THEN Some(None)
                        ELSE Some(Some(
                                 [a_1 |-> ab.val.a_1, b |-> ab.val.b,
                                  with_cal |->
                                      mag_measurements_with_cal(
                                          probe.in.points,
                                          Some(CalData(Zero3, Zero3, One3, ab.val)))]))]
    /\ UNCHANGED <<inside_cal, saved, quality, returned, chan, codec>>

InitPure ==
    /\ NewApp
    /\ probe \in {Probe("gyro_offset", points) : points \in GyroRuns}
                 \cup {Probe("acc", points) : points \in AccRuns \cup {SixClusters}}
                 \cup {Probe("acc_measurements_with_cal",
                              [acc_points |-> points, cal_data |-> model]) :
                           points \in ViewPoints, model \in ViewModels}
                 \cup {Probe("sphere_region", p) : p \in RegionVectors}
                 \cup {Probe("sphere_region_of", [longitude |-> lon, latitude |-> lat]) :
                           lon \in Longitudes, lat \in Latitudes}
                 \cup {Probe("calc_surface_gap_error",
                              [QualityDefault EXCEPT !.sphere_dist = dist]) :
                           dist \in GapDists}
                 \cup {Probe("sphere_ideal", i) : i \in Regions}
                 \cup {Probe("mat3_m_sqrt", input) : input \in MSqrtInputs}
                 \cup {Probe("cac_mag_params_from_fit", input) : input \in MagFitInputs}

NextPure ==
    \/ calibrate_gyro_offset
    \/ calibrate_acc
    \/ acc_measurements_with_cal_call
    \/ sphere_region_call
    \/ sphere_region_of_angles
    \/ calc_surface_gap_error_call
    \/ sphere_region_of_ideal_call
    \/ mat3_m_sqrt_call
    \/ mag_model_of_fit

SpecPure == InitPure /\ [][NextPure]_vars

-----------------------------------------------------------------------------
(* The calibrated views of Cal, beside adds, a load, clears and calibrate    *)

\* The three views are called on the Cal as it is; probe keeps what they
\* returned.
measurements_with_cal ==
    /\ status = "running"
    /\ probe' = [fn |-> "measurements_with_cal", in |-> Zero3,
                 out |-> Some([gyro |-> gyro_measurements_with_cal(gyro_points, cal_data),
                               acc |-> acc_measurements_with_cal(acc_points, cal_data),
                               mag |-> mag_measurements_with_cal(mag_points, cal_data)])]
    /\ UNCHANGED <<inside_cal, saved, quality, returned, chan, codec>>

\* A data file with both X lobes, one rotation rate and five field readings.
FileView ==
    [acc |-> <<V3(10, 0, 0, 1), V3(-8, 0, 0, 1)>>, gyro |-> <<V3(1, 1, 1, 2940)>>,
     mag |-> FiveMag]

NextViews ==
    \/ \E data \in GyroSamples : add_gyro_measurement(data)
    \/ \E data \in AccSamples : add_acc_measurement(data)
    \/ \E data \in MagSamples : add_mag_measurement(data)
    \/ clear_gyro_measurements
    \/ clear_accel_measurements
    \/ clear_mag_measurements
    \/ load_from_file(FileView)
    \/ calibrate
    \/ measurements_with_cal

SpecViews == Init /\ [][NextViews]_vars

-----------------------------------------------------------------------------
(* The two channels into MyApp::update                                      *)
(* A provider task sends ImuData on one std::sync::mpsc channel and MagData *)
(* on the other; MyApp::update empties the first with try_recv, then the    *)
(* second, then draws its widgets.  A send, a try_recv and a click are each *)
(* one step, so a send can fall between any two of the others.              *)

\* Records a provider sends on a channel, at most MaxSends on each.
MaxSends == 2
\* Clicks on the widgets of the flags in a run.
MaxClicks == 2
ImuRecords ==
    {[lin_acc |-> V3(1, 1, 1, 285), ang_vel |-> V3(1, 1, 1, 2940)],
     [lin_acc |-> V3(10, 10, 10, 1), ang_vel |-> V3(1, 0, 0, 1)]}
MagRecords == {[field |-> V3(3, 0, 0, 1)], [field |-> V3(0, 4, 0, 1)]}

\* imu_tx.send(ImuData {..})
send_imu(msg) ==
    /\ Len(chan.imu_sent) < MaxSends
    /\ chan' = [chan EXCEPT !.imu = Append(@, msg), !.imu_sent = Append(@, msg)]
    /\ UNCHANGED <<inside_cal, saved, quality, returned, probe, codec>>

\* mag_tx.send(MagData {..})
send_mag(msg) ==
    /\ Len(chan.mag_sent) < MaxSends
    /\ chan' = [chan EXCEPT !.mag = Append(@, msg), !.mag_sent = Append(@, msg)]
    /\ UNCHANGED <<inside_cal, saved, quality, returned, probe, codec>>

\* Variant: the record goes to the front of the sequence.
StoreAfterFront(collect, still, points, avg, data, alpha, tau) ==
    IF ~collect THEN [points |-> points, avg |-> avg]
    ELSE IF ~still THEN [points |-> <<data>> \o points, avg |-> avg]
    ELSE LET a == StillAvg(avg, data, alpha)
         IN  [points |-> IF StillAccept(a, data, tau) THEN <<data>> \o points
                         ELSE points,
              avg |-> a]

\* What an add of the accelerometer or the gyroscope does to its sequence
\* and its average when MyApp::update calls it for a record.
StoreAfter(collect, still, points, avg, data, alpha, tau) ==
    IF ~collect THEN [points |-> points, avg |-> avg]
    ELSE IF ~still THEN [points |-> Append(points, data), avg |-> avg]
    ELSE LET a == StillAvg(avg, data, alpha)
         IN  [points |-> IF StillAccept(a, data, tau) THEN Append(points, data)
                         ELSE points,
              avg |-> a]

\* MyApp::update, one turn of `while let Ok(msg) = self.imu_rx.try_recv()`
update_recv_imu ==
    /\ chan.pc = "imu" /\ chan.imu # <<>>
    /\ LET msg == Head(chan.imu)
           acc == StoreAfter(chan.collect_acc, chan.filter_standstill, acc_points,
                             acc_points_avg, msg.lin_acc, AccAlpha, AccTau)
           gyro == StoreAfter(chan.collect_gyro, chan.filter_standstill, gyro_points,
                              gyro_points_avg, msg.ang_vel, GyroAlpha, GyroTau)
       IN  /\ acc_points' = acc.points
           /\ acc_points_avg' = acc.avg
           /\ gyro_points' = gyro.points
           /\ gyro_points_avg' = gyro.avg
           /\ n_adds' = n_adds + (IF chan.collect_acc THEN 1 ELSE 0)
                               + (IF chan.collect_gyro THEN 1 ELSE 0)
           /\ IF chan.collect_gyro
              THEN Called(IF chan.filter_standstill THEN "add_gyro_measurement_still"
                          ELSE "add_gyro_measurement", msg.ang_vel)
              ELSE IF chan.collect_acc
              THEN Called(IF chan.filter_standstill THEN "add_acc_measurement_still"
                          ELSE "add_acc_measurement", msg.lin_acc)
              ELSE UNCHANGED <<op, arg>>
           /\ chan' = [chan EXCEPT
                         !.imu = Tail(@),
                         !.imu_log = Append(@, [msg |-> msg,
                                                collect_acc |-> chan.collect_acc,
                                                collect_gyro |-> chan.collect_gyro,
                                                still |-> chan.filter_standstill])]
    /\ UNCHANGED <<mag_points, cal_data, ui_cal_data, status, n_loads, n_clears, n_cals>>
    /\ UNCHANGED <<saved, quality, returned, probe, codec>>

\* try_recv() on the empty IMU channel ends the first loop
update_imu_empty ==
    /\ chan.pc = "imu" /\ chan.imu = <<>>
    /\ chan' = [chan EXCEPT !.pc = "mag"]
    /\ UNCHANGED <<inside_cal, saved, quality, returned, probe, codec>>

\* MyApp::update, one turn of `while let Ok(msg) = self.mag_rx.try_recv()`
update_recv_mag ==
    /\ chan.pc = "mag" /\ chan.mag # <<>>
    /\ LET msg == Head(chan.mag)
       IN  /\ mag_points' = IF chan.collect_mag THEN Append(mag_points, msg.field)
                            ELSE mag_points
           /\ n_adds' = n_adds + (IF chan.collect_mag THEN 1 ELSE 0)
           /\ IF chan.collect_mag THEN Called("add_mag_measurement", msg.field)
              ELSE UNCHANGED <<op, arg>>
           /\ chan' = [chan EXCEPT
                         !.mag = Tail(@),
                         !.mag_log = Append(@, [msg |-> msg,
                                                collect_mag |-> chan.collect_mag])]
    /\ UNCHANGED <<gyro_points, acc_points, acc_points_avg, gyro_points_avg, cal_data,
                   ui_cal_data, status, n_loads, n_clears, n_cals>>
    /\ UNCHANGED <<saved, quality, returned, probe, codec>>

\* try_recv() on the empty magnetometer channel ends the second loop
update_mag_empty ==
    /\ chan.pc = "mag" /\ chan.mag = <<>>
    /\ chan' = [chan EXCEPT !.pc = "ui"]
    /\ UNCHANGED <<inside_cal, saved, quality, returned, probe, codec>>

\* The "all" and "none" buttons, the three toggle_value and the checkbox
Widgets == {"all", "none", "Gyro", "Accel", "Mag", "Await standstill"}
WidgetEffect(widget) ==
                CASE widget = "all" ->
                      [chan EXCEPT !.collect_acc = TRUE, !.collect_gyro = TRUE,
                                   !.collect_mag = TRUE]
                 [] widget = "none" ->
                      [chan EXCEPT !.collect_acc = FALSE, !.collect_gyro = FALSE,
                                   !.collect_mag = FALSE]
                 [] widget = "Gyro" -> [chan EXCEPT !.collect_gyro = ~@]
                 [] widget = "Accel" -> [chan EXCEPT !.collect_acc = ~@]
                 [] widget = "Mag" -> [chan EXCEPT !.collect_mag = ~@]
                 [] widget = "Await standstill" -> [chan EXCEPT !.filter_standstill = ~@]

update_click(widget) ==
    /\ chan.pc = "ui" /\ chan.clicks < MaxClicks
    /\ chan' = [WidgetEffect(widget) EXCEPT !.clicks = @ + 1]
    /\ UNCHANGED <<inside_cal, saved, quality, returned, probe, codec>>

\* ctx.request_repaint(): update returns and is called again
update_return ==
    /\ chan.pc = "ui"
    /\ chan' = [chan EXCEPT !.pc = "imu"]
    /\ UNCHANGED <<inside_cal, saved, quality, returned, probe, codec>>

NextChannels ==
    \/ \E msg \in ImuRecords : send_imu(msg)
    \/ \E msg \in MagRecords : send_mag(msg)
    \/ update_recv_imu
    \/ update_imu_empty
    \/ update_recv_mag
    \/ update_mag_empty
    \/ \E widget \in Widgets : update_click(widget)
    \/ update_return

SpecChannels == Init /\ [][NextChannels]_vars

-----------------------------------------------------------------------------
(* serial_data_provider.rs: LineCodec                                        *)
(* The buffer is a sequence of bytes.  The port appends bytes to it; decode  *)
(* is called on it.  codec.items keeps what each decode that found a line    *)
(* took from the buffer, and whether it was returned as a String.            *)

\* b'\n'
Newline == 10
\* The bytes the port delivers: 'A', '\n', and 0xC3 0xA9, which together are
\* one character in UTF-8 and apart are not UTF-8.
Bytes == {65, Newline, 195, 169}
\* Bytes delivered in a run.
MaxBytes == 6

\* src.as_ref().iter().position(|b| *b == b'\n'), counted from 1; 0 is None
PositionOfNewline(src) ==
    IF \E i \in 1..Len(src) : src[i] = Newline
    THEN CHOOSE i \in 1..Len(src) :
             src[i] = Newline /\ \A j \in 1..(i - 1) : src[j] # Newline
    ELSE 0

\* str::from_utf8(..).is_ok(), for bytes below 0xE0: a byte below 0x80 is a
\* character; a byte of 0xC2..0xDF followed by one of 0x80..0xBF is a
\* character; any other byte there is an error.
RECURSIVE Utf8From(_, _)
Utf8From(bytes, i) ==
    IF i > Len(bytes) THEN TRUE
    ELSE IF bytes[i] < 128 THEN Utf8From(bytes, i + 1)
    ELSE IF bytes[i] >= 194 /\ bytes[i] <= 223 /\ i + 1 <= Len(bytes)
            /\ bytes[i + 1] >= 128 /\ bytes[i + 1] <= 191
    THEN Utf8From(bytes, i + 2)
    ELSE FALSE
from_utf8_is_ok(bytes) == Utf8From(bytes, 1)

\* Variant: src.split_to(n), which leaves the newline in the buffer.
decode_before_newline(src) ==
    LET n == PositionOfNewline(src)
    IN  IF n = 0 THEN [src |-> src, item |-> None, last |-> "none"]
        ELSE LET line == SubSeq(src, 1, n - 1)
             IN  [src |-> SubSeq(src, n, Len(src)),
                  item |-> Some([ok |-> from_utf8_is_ok(line), bytes |-> line]),
                  last |-> IF from_utf8_is_ok(line) THEN "line" ELSE "error"]

\* LineCodec::decode: the buffer it leaves and what it returns, Ok(None),
\* Ok(Some(line)) or Err.
decode(src) ==
    LET n == PositionOfNewline(src)
    IN  IF n = 0 THEN [src |-> src, item |-> None, last |-> "none"]
        ELSE LET line == SubSeq(src, 1, n)
             IN  [src |-> SubSeq(src, n + 1, Len(src)),
                  item |-> Some([ok |-> from_utf8_is_ok(line), bytes |-> line]),
                  last |-> IF from_utf8_is_ok(line) THEN "line" ELSE "error"]

\* The port delivers a byte: the framed reader appends it to the buffer.
codec_read(b) ==
    /\ Len(codec.received) < MaxBytes
    /\ codec' = [codec EXCEPT !.src = Append(@, b), !.received = Append(@, b)]
    /\ UNCHANGED <<inside_cal, saved, quality, returned, probe, chan>>

\* The framed reader calls decode on the buffer.
codec_decode ==
    /\ LET r == decode(codec.src)
       IN  codec' = [codec EXCEPT
                        !.src = r.src,
                        !.items = IF r.item.some THEN Append(@, r.item.val) ELSE @,
                        !.last = r.last]
    /\ UNCHANGED <<inside_cal, saved, quality, returned, probe, chan>>

NextCodec ==
    \/ \E b \in Bytes : codec_read(b)
    \/ codec_decode

SpecCodec == Init /\ [][NextCodec]_vars

-----------------------------------------------------------------------------
(* What the specification says of these operations *)

\* avg * alpha + s * (1 - alpha), component by component
Ema(avg, s, alpha) ==
    Vec(RAdd(RMul(avg[1], alpha), RMul(s[1], RSub(R1, alpha))),
        RAdd(RMul(avg[2], alpha), RMul(s[2], RSub(R1, alpha))),
        RAdd(RMul(avg[3], alpha), RMul(s[3], RSub(R1, alpha))))

\* A component of u is NaN.
VHasNaN(u) == IsNaN(u[1]) \/ IsNaN(u[2]) \/ IsNaN(u[3])

\* calibrate() was the last operation and it returned to its caller.
CalibrateReturned == op = "calibrate" /\ status = "running"

\* Each of the six lobes of `points` holds a sample.
LobesNonEmpty(points) ==
    /\ x_p(points) # <<>> /\ x_m(points) # <<>>
    /\ y_p(points) # <<>> /\ y_m(points) # <<>>
    /\ z_p(points) # <<>> /\ z_m(points) # <<>>

\* 2 g0 / (s_plus - s_minus), each axis from its own two lobes
ScalePerAxis(points) ==
    LET two_g0 == RMul(Rat(2, 1), G0)
    IN  Vec(RDiv(two_g0, RSub(Mean(x_p(points)), Mean(x_m(points)))),
            RDiv(two_g0, RSub(Mean(y_p(points)), Mean(y_m(points)))),
            RDiv(two_g0, RSub(Mean(z_p(points)), Mean(z_m(points)))))

\* The inputs on which the specification makes calibrate() fail: no gyroscope
\* sample, an empty accelerometer lobe, fewer than ten magnetometer samples.
MustFail(gyro, acc, mag) ==
    gyro = <<>> \/ ~LobesNonEmpty(acc) \/ Len(mag) < 10

\* C1: when calibrate() returns from samples that fill all six lobes, the
\* stored acc_scale is 2 g0 / (s_plus[a] - s_minus[a]) on every axis a, each
\* axis using the means of its own positive and negative lobe.
C1_ScaleFromOwnLobes ==
    (CalibrateReturned /\ LobesNonEmpty(acc_points))
        => cal_data.val.acc_scale = ScalePerAxis(acc_points)

\* C2: from the six lobes raw = true / k - b of a sensor with bias b = Bias and
\* scale k = 1 on every axis, calibrate() returns acc_offset = b and
\* acc_scale = k, and the model applied to each raw lobe sample gives back the
\* true +g0 or -g0 reading.
C2_RecoversBiasAndScale ==
    (CalibrateReturned /\ acc_points = SixLobes(Bias, One3))
        => /\ cal_data.val.acc_offset = Bias
           /\ cal_data.val.acc_scale = One3
           /\ \A i \in 1..6 :
                 ComponentMul(VAdd(acc_points[i], cal_data.val.acc_offset),
                              cal_data.val.acc_scale)
                     = SixLobes(Zero3, One3)[i]

\* C3: a model is stored only from accelerometer samples that fill all six
\* lobes, and no stored model has a NaN in acc_offset or acc_scale.
C3_NoModelFromEmptyLobe ==
    /\ CalibrateReturned => LobesNonEmpty(acc_points)
    /\ cal_data.some => /\ ~VHasNaN(cal_data.val.acc_offset)
                        /\ ~VHasNaN(cal_data.val.acc_scale)

\* C4: calibrate() on fewer than ten magnetometer samples (five, or none)
\* comes back with an error: the program keeps running and no fit is stored.
C4_TooFewMagSamples ==
    [][(op' = "calibrate" /\ Len(mag_points) < 10)
          => (status' = "running" /\ cal_data' = cal_data)]_vars

\* C5: no input makes the program end in a panic: a matrix without an inverse
\* is reported to the caller.
C5_NeverPanics == status # "panicked"

\* C6: calibrate() returns a model only when there is a gyroscope sample, and
\* from exactly one sample s the stored gyro_offset is s.
C6_GyroSampleRequired ==
    CalibrateReturned
        => /\ gyro_points # <<>>
           /\ Len(gyro_points) = 1 => cal_data.val.gyro_offset = gyro_points[1]

\* C7: the stored model changes only in a calibrate() that succeeds; a
\* calibrate() on inputs that must fail returns to its caller and leaves the
\* stored model, and the copy its caller holds, as they were.
C7_FailedRunKeepsModel ==
    [][/\ cal_data' # cal_data
            => (op' = "calibrate" /\ ~MustFail(gyro_points, acc_points, mag_points))
       /\ (op' = "calibrate" /\ MustFail(gyro_points, acc_points, mag_points))
            => (status' = "running" /\ UNCHANGED <<cal_data, ui_cal_data>>)]_vars

\* C8: a filtered add of the sample s replaces the average of its group by
\* avg * alpha + s * (1 - alpha) (alpha 0.98 for the gyroscope, 0.95 for the
\* accelerometer) whether or not s is kept, and appends s exactly when the norm
\* of (the new average - s) is strictly below tau (1e-3, 1e-2).
C8_FilteredAdd ==
    [][/\ op' = "add_gyro_measurement_still"
            => /\ gyro_points_avg' = Ema(gyro_points_avg, arg', Rat(98, 100))
               /\ gyro_points' =
                     IF NormLt(VSub(gyro_points_avg', arg'), Rat(1, 1000))
                     THEN Append(gyro_points, arg') ELSE gyro_points
       /\ op' = "add_acc_measurement_still"
            => /\ acc_points_avg' = Ema(acc_points_avg, arg', Rat(95, 100))
               /\ acc_points' =
                     IF NormLt(VSub(acc_points_avg', arg'), Rat(1, 100))
                     THEN Append(acc_points, arg') ELSE acc_points]_vars

\* A sample the filter keeps when it comes first has been rejected as the
\* second filtered add, after a sample that was itself rejected.
C8_RejectedSampleCounts ==
    /\ op = "add_gyro_measurement_still" /\ arg = V3(1, 1, 1, 2940)
    /\ NormLt(VSub(Ema(Zero3, arg, Rat(98, 100)), arg), Rat(1, 1000))
    /\ n_adds = 2 /\ n_loads = 0 /\ n_clears = 0
    /\ gyro_points = <<>>
    /\ gyro_points_avg # Zero3

\* C9: a clear empties the sequence of its own group and changes neither the
\* other two sequences, nor the two averages, nor the stored model.
C9_ClearOnlyItsSequence ==
    [][/\ op' = "clear_gyro_measurements"
            => /\ gyro_points' = <<>>
               /\ UNCHANGED <<acc_points, mag_points, acc_points_avg,
                              gyro_points_avg, cal_data, ui_cal_data>>
       /\ op' = "clear_accel_measurements"
            => /\ acc_points' = <<>>
               /\ UNCHANGED <<gyro_points, mag_points, acc_points_avg,
                              gyro_points_avg, cal_data, ui_cal_data>>
       /\ op' = "clear_mag_measurements"
            => /\ mag_points' = <<>>
               /\ UNCHANGED <<gyro_points, acc_points, acc_points_avg,
                              gyro_points_avg, cal_data, ui_cal_data>>]_vars

\* The accelerometer samples have been cleared while the other sequences hold
\* samples, both averages have moved and a model is stored.
C9_ClearedAmongData ==
    /\ op = "clear_accel_measurements" /\ acc_points = <<>>
    /\ gyro_points # <<>> /\ mag_points # <<>>
    /\ acc_points_avg # Zero3 /\ gyro_points_avg # Zero3
    /\ cal_data.some

\* C10, as the code has it: the average of a group is replaced by
\* avg * alpha + s * (1 - alpha) in every filtered add of that group, and no
\* other operation changes it: not an unfiltered add, and not a clear.
C10_AverageOnlyByFilteredAdd ==
    [][/\ IF op' = "add_gyro_measurement_still"
          THEN gyro_points_avg' = Ema(gyro_points_avg, arg', Rat(98, 100))
          ELSE gyro_points_avg' = gyro_points_avg
       /\ IF op' = "add_acc_measurement_still"
          THEN acc_points_avg' = Ema(acc_points_avg, arg', Rat(95, 100))
          ELSE acc_points_avg' = acc_points_avg]_vars

\* The gyroscope samples have been cleared and the average is not at its
\* initial value.
C10_ClearKeptAverage ==
    /\ op = "clear_gyro_measurements" /\ gyro_points = <<>>
    /\ gyro_points_avg # Zero3

\* C10, as the specification has it: every sample that comes in for a group
\* moves its average, and a clear returns the average to its initial value.
C10_ClearResetsAverage ==
    [][/\ op' \in {"add_gyro_measurement", "add_gyro_measurement_still"}
            => gyro_points_avg' = Ema(gyro_points_avg, arg', Rat(98, 100))
       /\ op' \in {"add_acc_measurement", "add_acc_measurement_still"}
            => acc_points_avg' = Ema(acc_points_avg, arg', Rat(95, 100))
       /\ op' = "clear_gyro_measurements" => gyro_points_avg' = Zero3
       /\ op' = "clear_accel_measurements" => acc_points_avg' = Zero3]_vars

\* C11: an unfiltered add of the sample s makes the sequence of its group the
\* previous sequence followed by s, whatever s and the state are, and leaves
\* the other two sequences as they were.
C11_UnfilteredAddAppends ==
    [][/\ op' = "add_gyro_measurement"
            => /\ gyro_points' = gyro_points \o <<arg'>>
               /\ UNCHANGED <<acc_points, mag_points>>
       /\ op' = "add_acc_measurement"
            => /\ acc_points' = acc_points \o <<arg'>>
               /\ UNCHANGED <<gyro_points, mag_points>>
       /\ op' = "add_mag_measurement"
            => /\ mag_points' = mag_points \o <<arg'>>
               /\ UNCHANGED <<gyro_points, acc_points>>]_vars

\* Two unfiltered adds of different accelerometer samples, the second one far
\* from the average: both are stored, in the order they came.
C11_TwoAddsInOrder ==
    /\ op = "add_acc_measurement" /\ arg = V3(10, 10, 10, 1)
    /\ n_adds = 2 /\ n_loads = 0 /\ n_clears = 0
    /\ Len(acc_points) = 2
    /\ acc_points[1] # arg /\ acc_points[2] = arg
    /\ ~StillAccept(acc_points_avg, arg, AccTau)

\* C12: the gyroscope offset is the component-wise mean of the stored gyro
\* samples, and when every stored sample is the same vector v the offset is
\* v exactly.
C12_ConstantSamplesMeanExact ==
    (/\ probe.fn = "gyro_offset" /\ probe.out # None
     /\ \A i \in 1..Len(probe.in) : probe.in[i] = probe.in[1])
        => probe.out.val = probe.in[1]

\* A function has been applied to its input.
Applied(fn) == probe.fn = fn /\ probe.out # None

\* c > 0.75 * 9.80665; c < -0.75 * 9.80665
InPositiveLobe(c) == RLt(Rat(3 * 980665, 4 * 100000), c)
InNegativeLobe(c) == RLt(c, Rat(-3 * 980665, 4 * 100000))
AxisOf(points, axis) == [i \in 1..Len(points) |-> points[i][axis]]

\* C13: on each axis the positive lobe holds exactly the components strictly
\* greater than 0.75*g0 and the negative lobe exactly those strictly less
\* than -0.75*g0, whatever the other two components of the sample are, and
\* the offset of an axis with both lobes filled is the sum of the two lobe
\* means.
C13_LobesAndOffset ==
    Applied("acc") =>
        \A axis \in 1..3 :
            LET pos == SelectSeq(AxisOf(probe.in, axis), InPositiveLobe)
                neg == SelectSeq(AxisOf(probe.in, axis), InNegativeLobe)
            IN  /\ probe.out.val.p[axis] = pos
                /\ probe.out.val.m[axis] = neg
                /\ (pos # <<>> /\ neg # <<>>) =>
                       probe.out.val.acc_offset[axis]
                           = RAdd(RDiv(RSum(pos), <<Len(pos), 1>>),
                                  RDiv(RSum(neg), <<Len(neg), 1>>))

\* A sample with a component at the threshold (in no lobe), one with two
\* components beyond it, and the X axis with both lobes filled.
C13_ThresholdAndTwoAxes ==
    /\ Applied("acc")
    /\ probe.in = <<Vec(G0_THR, R0, RNeg(G0_THR)), Vec(ThrUp, RNeg(ThrUp), R0),
                    Vec(RNeg(G0), ThrUp, G0)>>
    /\ probe.out.val.p = << <<ThrUp>>, <<ThrUp>>, <<G0>> >>
    /\ probe.out.val.m = << <<RNeg(G0)>>, <<RNeg(ThrUp)>>, <<>> >>
    /\ probe.out.val.acc_offset[1] = RSub(ThrUp, G0)

\* |x - y| < 1e-6
Within1e6(x, y) ==
    /\ RLt(RSub(x, y), Rat(1, 1000000))
    /\ RLt(RSub(y, x), Rat(1, 1000000))

\* C14: six clusters of 20 samples at exactly +g0 and -g0 on each axis, zero
\* elsewhere, give acc_offset = [0,0,0] and acc_scale = [1,1,1] within 1e-6.
C14_CleanClusters ==
    (Applied("acc") /\ probe.in = SixClusters) =>
        \A axis \in 1..3 :
            /\ Within1e6(probe.out.val.acc_offset[axis], R0)
            /\ Within1e6(probe.out.val.acc_scale[axis], R1)

C14_SixClustersOfTwenty ==
    /\ Applied("acc") /\ probe.in = SixClusters
    /\ Len(probe.in) = 6 * ClusterSize
    /\ \A axis \in 1..3 :
           /\ Len(probe.out.val.p[axis]) = ClusterSize
           /\ Len(probe.out.val.m[axis]) = ClusterSize
           /\ probe.out.val.p[axis][1] = G0 /\ probe.out.val.m[axis][1] = RNeg(G0)

\* C15: under a model, every stored accelerometer sample is shown as
\* (raw + acc_offset) multiplied component by component with acc_scale.
C15_ModelApplied ==
    (Applied("acc_measurements_with_cal") /\ probe.in.cal_data.some) =>
        /\ Len(probe.out.val) = Len(probe.in.acc_points)
        /\ \A i \in 1..Len(probe.in.acc_points) : \A axis \in 1..3 :
               probe.out.val[i][axis]
                   = RMul(RAdd(probe.in.acc_points[i][axis],
                               probe.in.cal_data.val.acc_offset[axis]),
                          probe.in.cal_data.val.acc_scale[axis])

\* Two samples under a model with a non-zero offset and a scale other than 1.
C15_OffsetAndScaleOnTwoSamples ==
    /\ Applied("acc_measurements_with_cal")
    /\ probe.in.acc_points = <<V3(1, 2, 3, 1), V3(-1, 0, 5, 2)>>
    /\ probe.in.cal_data = ModelOf(V3(1, 0, -2, 2), Vec(R1, Rat(2, 1), Rat(1, 2)))
    /\ probe.out.val = <<V3(3, 8, 2, 2), V3(0, 0, 3, 4)>>

\* C16: after save_to_file and load_from_file of the file it wrote, the gyro,
\* accel and mag sequences are exactly the saved ones, whatever the store
\* held when the file was loaded.
C16_LoadReproducesSaved ==
    (op = "load_from_file" /\ saved.some) =>
        /\ status = "running"
        /\ [i \in 1..Len(acc_points) |-> [axis \in 1..3 |->
               [tok |-> "number", val |-> acc_points[i][axis]]]] = saved.val.acc
        /\ [i \in 1..Len(gyro_points) |-> [axis \in 1..3 |->
               [tok |-> "number", val |-> gyro_points[i][axis]]]] = saved.val.gyro
        /\ [i \in 1..Len(mag_points) |-> [axis \in 1..3 |->
               [tok |-> "number", val |-> mag_points[i][axis]]]] = saved.val.mag

\* C17: whatever the input, sphere_region gives an index in 0..99, and the
\* latitude selects the band: above 1.37046 the arctic cap 0, down to 0.74776
\* (excluded) the upper temperate zone 1..15, down to 0 the upper tropic
\* 16..49, below 0 down to -0.74776 the lower tropic 50..83, down to
\* -1.37046 the lower temperate zone 84..98, below that the antarctic cap 99.
C17_RegionInRange ==
    /\ Applied("sphere_region") => probe.out.val \in 0..99
    /\ Applied("sphere_region_of") =>
          LET lat == probe.in.latitude
              r == probe.out.val
              cap == Rat(137046, 100000)
              belt == Rat(74776, 100000)
          IN  /\ r \in 0..99
              /\ RLt(cap, lat) => r = 0
              /\ (RLt(belt, lat) /\ ~RLt(cap, lat)) => r \in 1..15
              /\ (~RLt(lat, R0) /\ ~RLt(belt, lat) /\ ~IsNaN(lat)) => r \in 16..49
              /\ (RLt(lat, R0) /\ ~RLt(lat, RNeg(belt))) => r \in 50..83
              /\ (RLt(lat, RNeg(belt)) /\ ~RLt(lat, RNeg(cap))) => r \in 84..98
              /\ RLt(lat, RNeg(cap)) => r = 99

\* The last index of a zone, from a longitude of a full turn at a latitude
\* exactly on the boundary of the cap.
C17_FullTurnOnCapBoundary ==
    /\ Applied("sphere_region_of")
    /\ probe.in = [longitude |-> TAU, latitude |-> Rat(-137046, 100000)]
    /\ probe.out.val = 98

\* update was called in this step: one more magnitude is recorded.
UpdateStep == Len(quality'.magnitude) = Len(quality.magnitude) + 1

\* C18: an update never increases the surface-gap error: what
\* calc_surface_gap_error() gives after the update, and what the accessor
\* gives, is at most what calc_surface_gap_error() gave before it.
C18_GapNeverIncreases ==
    [][UpdateStep =>
          /\ ~RLt(calc_surface_gap_error(quality).val,
                  calc_surface_gap_error(quality').val)
          /\ ~RLt(calc_surface_gap_error(quality).val, surface_gap_error(quality'))]_vars

\* Three updates in a row into one region: 99.2, 99.01, 99.
C18_ThreeSamplesOneRegion ==
    /\ returned = Call("update", V3(6, 0, 8, 1), R0)
    /\ Len(quality.magnitude) = 3
    /\ quality.sphere_dist[sphere_region(V3(6, 0, 8, 1))] = 3
    /\ surface_gap_error(quality) = Rat(99, 1)

\* C19: a scorer without samples reports a wobble error of exactly 100.0,
\* through calc_wobble_error() and through the accessor wobble_error().
C19_EmptyScorerWobble100 ==
    Len(quality.magnitude) = 0 =>
        /\ calc_wobble_error(quality).val = Rat(100, 1)
        /\ wobble_error(quality) = Rat(100, 1)

\* The scores of the data a scorer holds, computed anew.
Invalidated(q) ==
    [q EXCEPT !.quality_gaps_computed = FALSE, !.quality_variance_computed = FALSE,
              !.quality_wobble_computed = FALSE]

\* C20: update(p) appends the magnitude of p, adds 1 and p to the count and
\* the sum of the region sphere_region(p) and to no other, and leaves the
\* three cached scores computed from the data including p, so the accessors
\* return them at once.
C20_UpdateRecordsAndRecomputes ==
    [][UpdateStep =>
          LET p == returned'.val.arg
              m == quality'.magnitude[Len(quality'.magnitude)]
              region == sphere_region(p)
          IN  /\ returned'.val.call = "update"
              /\ SubSeq(quality'.magnitude, 1, Len(quality.magnitude)) = quality.magnitude
              /\ ~RLt(m, R0)
              /\ RMul(m, m) = RAdd(RAdd(RMul(p[1], p[1]), RMul(p[2], p[2])), RMul(p[3], p[3]))
              /\ region \in Regions
              /\ quality'.sphere_dist = [quality.sphere_dist EXCEPT ![region] = @ + 1]
              /\ quality'.sphere_data = [quality.sphere_data EXCEPT ![region] = VAdd(@, p)]
              /\ quality'.quality_gaps_computed
              /\ quality'.quality_variance_computed
              /\ quality'.quality_wobble_computed
              /\ surface_gap_error(quality')
                    = calc_surface_gap_error(Invalidated(quality')).val
              /\ magnitude_variance_error(quality')
                    = calc_magnitude_variance_error(Invalidated(quality')).val
              /\ wobble_error(quality') = calc_wobble_error(Invalidated(quality')).val]_vars

\* A second sample, of another magnitude, into the region of the first: the
\* scores are those of both samples.
C20_SecondSampleSameRegion ==
    /\ returned = Call("update", V3(6, 0, 8, 1), R0)
    /\ quality.magnitude = <<Rat(5, 1), Rat(10, 1)>>
    /\ quality.sphere_dist[sphere_region(V3(6, 0, 8, 1))] = 2
    /\ quality.sphere_data[sphere_region(V3(6, 0, 8, 1))] = V3(9, 0, 12, 1)
    /\ surface_gap_error(quality) = Rat(9901, 100)
    /\ magnitude_variance_error(quality) = Rat(100, 3)

\* C21: whatever calls were made, the three accessors return what a
\* computation without the cache gives for the region counts, vector sums
\* and magnitudes the scorer holds.
C21_AccessorsEqualRecomputation ==
    /\ surface_gap_error(quality) = calc_surface_gap_error(Invalidated(quality)).val
    /\ wobble_error(quality) = calc_wobble_error(Invalidated(quality)).val
    /\ quality.magnitude # <<>> =>
          magnitude_variance_error(quality)
              = calc_magnitude_variance_error(Invalidated(quality)).val

\* The penalty of one region, from the number of samples it holds.
Penalty(num) ==
    CASE num = 0 -> Rat(1, 1)
      [] num = 1 -> Rat(1, 5)
      [] num = 2 -> Rat(1, 100)
      [] OTHER -> Rat(0, 1)

RECURSIVE PenaltySum(_, _, _)
PenaltySum(dist, lo, hi) ==
    IF lo = hi THEN Penalty(dist[lo])
    ELSE LET mid == (lo + hi) \div 2
         IN  RAdd(PenaltySum(dist, lo, mid), PenaltySum(dist, mid + 1, hi))

\* C22: the surface-gap error is the sum over the 100 regions of the penalty
\* 1.0, 0.2, 0.01 or 0 for 0, 1, 2 or at least 3 samples; it is 100 when no
\* region has a sample and 0 exactly when every region holds three or more.
C22_GapErrorIsPenaltySum ==
    Applied("calc_surface_gap_error") =>
        LET dist == probe.in.sphere_dist
            error == probe.out.val.val
        IN  /\ error = PenaltySum(dist, 0, REGION_COUNT - 1)
            /\ (\A i \in Regions : dist[i] = 0) => error = Rat(100, 1)
            /\ error = Rat(0, 1) <=> \A i \in Regions : dist[i] >= 3

\* Counts cycling 1, 2, 3, 0 over the regions, 25 regions of each: 30.25.
C22_CountsCycling ==
    /\ Applied("calc_surface_gap_error")
    /\ probe.in.sphere_dist = [i \in Regions |-> (i + 1) % 4]
    /\ probe.out.val.val = Rat(3025, 100)

\* The records of a log, in the order they were received.
Msgs(log) == [k \in 1..Len(log) |-> log[k].msg]

\* The field of the records of a log received while keep held of them.
Flagged(log, keep(_), field(_)) ==
    LET kept == SelectSeq(log, keep)
    IN  [k \in 1..Len(kept) |-> field(kept[k].msg)]

\* C23 as stated: every record received while its collection flag was on is
\* in the store, once, in the order of its channel.
C23_EveryFlaggedRecordAdded ==
    /\ gyro_points = Flagged(chan.imu_log, LAMBDA e : e.collect_gyro, LAMBDA m : m.ang_vel)
    /\ acc_points = Flagged(chan.imu_log, LAMBDA e : e.collect_acc, LAMBDA m : m.lin_acc)
    /\ mag_points = Flagged(chan.mag_log, LAMBDA e : e.collect_mag, LAMBDA m : m.field)

\* What the first n records of the IMU log leave of one axis-group: a record
\* received with the flag off changes nothing, one received with the flag on
\* and "Await standstill" off is appended, one received with both on moves
\* the average by weight, and is appended if it is then within tau of it.
RECURSIVE Replayed(_, _, _, _, _, _)
Replayed(log, n, collect(_), field(_), weight, tau) ==
    IF n = 0 THEN [points |-> <<>>, avg |-> Zero3]
    ELSE LET before == Replayed(log, n - 1, collect, field, weight, tau)
             x == field(log[n].msg)
             a == VAdd(VScale(before.avg, weight), VScale(x, RSub(Rat(1, 1), weight)))
         IN  IF ~collect(log[n]) THEN before
             ELSE IF ~log[n].still THEN [before EXCEPT !.points = Append(@, x)]
             ELSE [points |-> IF NormLt(VSub(a, x), tau) THEN Append(before.points, x)
                              ELSE before.points,
                   avg |-> a]

\* C23, amended: under every interleaving of sends, receipts and clicks, the
\* records received on a channel followed by those still in it are the
\* records sent on it, in order; the gyro and accelerometer sequences and
\* averages are what the received IMU records and the flags at their receipt
\* give on their own, each record with its flag on being appended once,
\* unless "Await standstill" was on and the record was away from the average;
\* the magnetometer sequence is the fields of the magnetometer records
\* received with collect_mag on.
C23_StoreFollowsEachChannel ==
    /\ Msgs(chan.imu_log) \o chan.imu = chan.imu_sent
    /\ Msgs(chan.mag_log) \o chan.mag = chan.mag_sent
    /\ LET gyro == Replayed(chan.imu_log, Len(chan.imu_log), LAMBDA e : e.collect_gyro,
                            LAMBDA m : m.ang_vel, Rat(98, 100), Rat(1, 1000))
           acc == Replayed(chan.imu_log, Len(chan.imu_log), LAMBDA e : e.collect_acc,
                           LAMBDA m : m.lin_acc, Rat(95, 100), Rat(1, 100))
       IN  /\ gyro_points = gyro.points /\ gyro_points_avg = gyro.avg
           /\ acc_points = acc.points /\ acc_points_avg = acc.avg
    /\ mag_points = Flagged(chan.mag_log, LAMBDA e : e.collect_mag, LAMBDA m : m.field)

\* Two IMU records received with collect_gyro on, the first with "Await
\* standstill" off and added, the second with it on and left out, and two
\* different magnetometer records added in the order they were sent.
C23_OneLeftOutTwoMagInOrder ==
    /\ Len(chan.imu_log) = 2
    /\ chan.imu_log[1].collect_gyro /\ ~chan.imu_log[1].still
    /\ chan.imu_log[2].collect_gyro /\ chan.imu_log[2].still
    /\ gyro_points = <<chan.imu_log[1].msg.ang_vel>>
    /\ Len(mag_points) = 2 /\ mag_points[1] # mag_points[2]
    /\ mag_points = <<chan.mag_sent[1].field, chan.mag_sent[2].field>>

\* C25: sphere_region maps the ideal vector of every region back to that
\* region.
C25_IdealInOwnRegion ==
    Applied("sphere_ideal") => probe.out.val.region = probe.in

\* The ideal vector of a region of the upper four bands lies in that region.
C25_UpperBandsInOwnRegion ==
    (Applied("sphere_ideal") /\ probe.in < 84) => probe.out.val.region = probe.in

\* C26: whenever a wobble score has been computed, the ideal vector of every
\* region is the one reset() computes, also on a scorer made by Default and
\* given samples without a reset() before them.
C26_IdealSetWhenWobbleComputed ==
    quality.quality_wobble_computed => quality.sphere_ideal = SphereIdeal

\* Once reset() has filled the ideal vectors, no call changes them.
C26_IdealKeptOnceSet ==
    [][quality.sphere_ideal = SphereIdeal => quality'.sphere_ideal = SphereIdeal]_vars

\* A step in which the calibrated views were called.
ViewStep == probe'.fn = "measurements_with_cal" /\ probe' # probe

\* C27: a call of the calibrated views changes nothing of the Cal; with no
\* model stored each view is empty; with one stored each view has one entry
\* per raw sample, in order, under the model stored at the call: sample minus
\* gyro_offset for the gyroscope, (sample + acc_offset) * acc_scale by
\* component for the accelerometer, soft_iron * (sample - hard_iron_bias) for
\* the magnetometer.
C27_ViewsFollowStoreAndModel ==
    [][ViewStep =>
          LET view == probe'.out.val
          IN  /\ UNCHANGED inside_cal
              /\ ~cal_data.some => view.gyro = <<>> /\ view.acc = <<>> /\ view.mag = <<>>
              /\ cal_data.some =>
                    /\ Len(view.gyro) = Len(gyro_points)
                    /\ Len(view.acc) = Len(acc_points)
                    /\ Len(view.mag) = Len(mag_points)
                    /\ \A i \in 1..Len(gyro_points) :
                          view.gyro[i] = VSub(gyro_points[i], cal_data.val.gyro_offset)
                    /\ \A i \in 1..Len(acc_points) :
                          view.acc[i] = ComponentMul(VAdd(acc_points[i],
                                                          cal_data.val.acc_offset),
                                                     cal_data.val.acc_scale)
                    /\ \A i \in 1..Len(mag_points) :
                          view.mag[i] = MatVec(cal_data.val.soft_iron_transf,
                                               VSub(mag_points[i],
                                                    cal_data.val.hard_iron_bias))]_vars

\* The views of a store whose only rotation rate was added after the model
\* was computed and after the rates behind the model were cleared: the view
\* has that one rate less the stored offset.
C27_AddedAfterModelAndClear ==
    /\ Applied("measurements_with_cal")
    /\ cal_data.some /\ VFinite(cal_data.val.gyro_offset)
    /\ n_clears = 1 /\ op = "add_gyro_measurement"
    /\ gyro_points = <<V3(1, 0, 0, 1)>>
    /\ cal_data.val.gyro_offset = V3(1, 1, 1, 2940)
    /\ probe.out.val.gyro = <<V3(2939, -1, -1, 2940)>>
    /\ Len(probe.out.val.mag) = 5

\* C28: an add changes only what belongs to its own axis-group.  No add
\* changes the stored model; an unfiltered add changes neither average; an
\* add of a rotation rate leaves the accelerations, their average and the
\* field readings as they were, an add of an acceleration leaves the
\* rotation rates, their average and the field readings, and an add of a
\* field reading leaves both other sequences and both averages.
C28_AddStaysInItsGroup ==
    [][n_adds' = n_adds + 1 =>
          /\ UNCHANGED <<cal_data, ui_cal_data>>
          /\ op' \in {"add_gyro_measurement", "add_acc_measurement", "add_mag_measurement"}
                => UNCHANGED <<gyro_points_avg, acc_points_avg>>
          /\ op' \in {"add_gyro_measurement", "add_gyro_measurement_still"}
                => UNCHANGED <<acc_points, acc_points_avg, mag_points>>
          /\ op' \in {"add_acc_measurement", "add_acc_measurement_still"}
                => UNCHANGED <<gyro_points, gyro_points_avg, mag_points>>
          /\ op' = "add_mag_measurement" => UNCHANGED <<gyro_points, acc_points>>]_vars

\* A filtered add of a rotation rate has just moved the gyro average, while
\* the accelerometer average had been moved before, accelerations and field
\* readings are stored, and a model is stored.
C28_FilteredGyroAddBesideTheRest ==
    /\ op = "add_gyro_measurement_still"
    /\ gyro_points_avg # Zero3 /\ acc_points_avg # Zero3
    /\ acc_points # <<>> /\ mag_points # <<>>
    /\ cal_data.some

\* The bytes of the items of a codec, one after the other.
RECURSIVE Flat(_)
Flat(items) == IF items = <<>> THEN <<>> ELSE Head(items).bytes \o Flat(Tail(items))

\* UTF-8 over the bytes 'A', '\n', 0xC3 and 0xA9: every 0xC3 is followed at
\* once by a 0xA9, and every 0xA9 follows a 0xC3.
WellFormed(bytes) ==
    \A i \in 1..Len(bytes) :
        /\ bytes[i] = 195 => i < Len(bytes) /\ bytes[i + 1] = 169
        /\ bytes[i] = 169 => i > 1 /\ bytes[i - 1] = 195

\* C29: a decode on a buffer with a newline takes from it the bytes up to and
\* including the first newline, and returns them as one line, or an error
\* when they are not UTF-8; a decode on a buffer without a newline returns
\* None and leaves the buffer alone.  So the bytes taken so far followed by
\* the buffer are the bytes received, in order, and when every decode
\* returned a line, the lines followed by the buffer are the bytes received.
C29_DecodeTakesFirstLine ==
    [][/\ (codec'.received = codec.received /\ codec' # codec) =>
             LET src == codec.src
                 newlines == {i \in 1..Len(src) : src[i] = 10}
             IN  IF newlines = {}
                 THEN /\ codec'.last = "none"
                      /\ codec'.src = src /\ codec'.items = codec.items
                 ELSE LET n == CHOOSE i \in newlines : \A j \in newlines : i <= j
                          item == codec'.items[Len(codec'.items)]
                      IN  /\ Len(codec'.items) = Len(codec.items) + 1
                          /\ SubSeq(codec'.items, 1, Len(codec.items)) = codec.items
                          /\ item.bytes = SubSeq(src, 1, n)
                          /\ item.bytes \o codec'.src = src
                          /\ item.ok <=> WellFormed(item.bytes)
                          /\ codec'.last = IF item.ok THEN "line" ELSE "error"
       /\ Flat(codec'.items) \o codec'.src = codec'.received
       /\ Len(Flat(codec'.items)) + Len(codec'.src) = Len(codec'.received)]_vars

\* "A\n" was returned as a line, 0xC3 "\n" gave an error, and the character
\* 0xC3 0xA9 waits in the buffer for its newline.
C29_LineErrorAndRest ==
    /\ codec.received = <<65, 10, 195, 10, 195, 169>>
    /\ codec.items = <<[ok |-> TRUE, bytes |-> <<65, 10>>],
                       [ok |-> FALSE, bytes |-> <<195, 10>>]>>
    /\ codec.src = <<195, 169>>
    /\ codec.last = "none"

\* The largest row sum of absolute values of a matrix, and the condition
\* number it gives.
RowSum(m) ==
    LET row(i) == RAdd(RAdd(RAbs(m[i][1]), RAbs(m[i][2])), RAbs(m[i][3]))
        rows == {row(1), row(2), row(3)}
    IN  CHOOSE r \in rows : \A s \in rows : ~RLt(r, s)
WellConditioned(a) ==
    /\ Mat3TryInverse(a).some
    /\ ~RLt(Rat(10, 1), RMul(RowSum(a), RowSum(Mat3TryInverse(a).val)))

OnFit(fit, x) ==
    RAdd(RAdd(Dot(x, MatVec(fit.m, x)), RMul(Rat(2, 1), Dot(fit.n, x))), fit.d) = Rat(0, 1)

=============================================================================
